---- MODULE Spec2Model ----
(***************************************************************************)
(* A model of the frame-anchored scene graph of ros3d-evolve: SceneNode    *)
(* and the pose composition it uses, the InteractiveMarker drag session,   *)
(* the MarkerClient / MarkerArrayClient identity lifecycle and the         *)
(* LaserScan / PointCloud2 streaming decoders.                             *)
(*                                                                         *)
(* Numbers are integers.  Vectors are <<x, y, z>>, quaternions are         *)
(* <<x, y, z, w>>.  Quaternions are drawn from the ones with at most one   *)
(* non-zero component, for which length and normalisation are exact in     *)
(* integer arithmetic and which are closed under the Hamilton product.     *)
(***************************************************************************)
EXTENDS Integers, Sequences, FiniteSets, TLC

VARIABLES
    \* ---- SceneNode bound to one frame of a TFClient
    sn,          \* the SceneNode object (initialPose, position, quaternion, ...)
    tfPending,   \* the TFClient's setTimeout(callback(defaultTransform), 0) is pending
    lastTf,      \* the transform most recently handed to the node's callback
    runLen,      \* number of consecutive deliveries of lastTf (capped)
    runPose,     \* the node's pose after the first delivery of that run
    \* ---- InteractiveMarker drag session
    im,          \* the InteractiveMarker object
    imObs,       \* what the last handler did, and the pushes seen in this drag
    \* ---- MarkerClient / MarkerArrayClient
    markers,     \* this.markers: key -> node id (0: no property under that key)
    rootNodes,   \* the SceneNodes that are children of this.rootObject
    nodes,       \* every SceneNode the client constructed so far, by id
    nextId,      \* the id the next constructed SceneNode gets
    mkObs,       \* what the last processed marker message did
    \* ---- LaserScan / PointCloud2 on a Points buffer
    pts,         \* the Points helper and the client's base64 scratch buffer
    ptObs,       \* what the last processed sensor message did
    \* ---- one marker key of a MarkerClient under a TFClient, with poses
    mp,          \* the key's SceneNode, its Marker child and the last inputs
    \* ---- MarkerClient with a lifetime
    ttl,          \* lifetime, clock, the updatedTime of every live key
    ic,           \* InteractiveMarkerClient: subscription, init calls in flight, handles
    tfc,           \* one frame of a TFClient with several subscribers
    dec,           \* PointCloud2 decoding one message into positions
    oc,           \* OcTree: the node stream of a message and what parseFull made of it
    at,           \* utils/ros.js: the arguments of the latest applyTransform call and what it returned
    b64,           \* decode64: a base64 text, the output array and what one call stored in it
    dm,           \* InteractiveMarker.dispose: an interactive marker, its controls and their children
    sub,           \* LaserScan / PointCloud2 as a topic subscriber: its Topic, the deliveries the Topic has deferred, its teardown
    mh,           \* the MouseHandler of a viewer and the notifications of its last DOM event
    nsf           \* a NavSatFix client: its ring buffer, its draw range and the fixes it received

sceneVars  == <<sn, tfPending, lastTf, runLen, runPose>>
dragVars   == <<im, imObs>>
markerVars == <<markers, rootNodes, nodes, nextId, mkObs>>
pointVars  == <<pts, ptObs>>
poseVars   == <<mp>>
ttlVars    == <<ttl>>
vars == <<sn, tfPending, lastTf, runLen, runPose, im, imObs,
          markers, rootNodes, nodes, nextId, mkObs, pts, ptObs, mp, ttl, ic, tfc, dec, oc, at, b64, dm, sub, mh, nsf>>

-----------------------------------------------------------------------------
(* Bounds of the model *)

\* longest run of identical transform deliveries that is counted
MaxRun == 3

\* calls of dispose() on one node that are followed
MaxDisposeCalls == 2
MaxChildren == 2

\* server pushes counted during one drag
MaxPushes == 3

\* SceneNodes a marker client constructs in one run
MaxNodes == 4

\* largest points[] of a marker message
MaxPoints == 3

\* longest MarkerArray message
MaxArrayLen == 2

-----------------------------------------------------------------------------
(* Vector and quaternion arithmetic (THREE.Vector3 / THREE.Quaternion) *)

\* largest r with r*r <= s
ISqrt(s) == CHOOSE r \in 0..s : r * r <= s /\ (r + 1) * (r + 1) > s

VAdd(a, b) == <<a[1] + b[1], a[2] + b[2], a[3] + b[3]>>

\* Vector3.applyQuaternion(q)
ApplyQuaternion(v, q) ==
    LET tx == 2 * (q[2] * v[3] - q[3] * v[2])
        ty == 2 * (q[3] * v[1] - q[1] * v[3])
        tz == 2 * (q[1] * v[2] - q[2] * v[1])
    IN  << v[1] + q[4] * tx + q[2] * tz - q[3] * ty,
           v[2] + q[4] * ty + q[3] * tx - q[1] * tz,
           v[3] + q[4] * tz + q[1] * ty - q[2] * tx >>

\* Quaternion.multiplyQuaternions(a, b): the Hamilton product a * b
QMul(a, b) ==
    << a[1] * b[4] + a[4] * b[1] + a[2] * b[3] - a[3] * b[2],
       a[2] * b[4] + a[4] * b[2] + a[3] * b[1] - a[1] * b[3],
       a[3] * b[4] + a[4] * b[3] + a[1] * b[2] - a[2] * b[1],
       a[4] * b[4] - a[1] * b[1] - a[2] * b[2] - a[3] * b[3] >>

QLength(q) == ISqrt(q[1] * q[1] + q[2] * q[2] + q[3] * q[3] + q[4] * q[4])

\* Quaternion.normalize(): a zero quaternion becomes the identity
QNormalize(q) ==
    LET l == QLength(q)
    IN  IF l = 0 THEN <<0, 0, 0, 1>>
        ELSE << q[1] \div l, q[2] \div l, q[3] \div l, q[4] \div l >>

QId == <<0, 0, 0, 1>>
VZero == <<0, 0, 0>>
IdentityPose == [position |-> VZero, orientation |-> QId]
IdentityTf == [translation |-> VZero, rotation |-> QId]

\* poses a caller may hand to a SceneNode (orientation need not be unit)
Positions == { VZero, <<1, 0, 0>>, <<0, 2, 0>> }
Orientations == { QId, <<1, 0, 0, 0>>, <<0, 0, 2, 0>>, <<0, 0, 0, 0>> }
Poses == [position : Positions, orientation : Orientations]

\* transforms a transform store delivers (rotation is a unit quaternion)
Translations == { VZero, <<1, 0, 0>>, <<2, 0, 0>>, <<0, 0, 1>> }
Rotations == { QId, <<0, 0, 1, 0>>, <<0, 1, 0, 0>> }
Transforms == [translation : Translations, rotation : Rotations]

-----------------------------------------------------------------------------
(* utils/ros.js *)

\* a composition in the order local, then transform
applyTransformLocalFirst(pose, transform) ==
    LET currentPosition == VAdd(ApplyQuaternion(pose.position, transform.rotation),
                                transform.translation)
        currentOrientation == QNormalize(QMul(pose.orientation, transform.rotation))
    IN  [position |-> currentPosition, orientation |-> currentOrientation]

\* applyTransform(pose, transform): a new pose, the arguments are not mutated
applyTransform(pose, transform) ==
    LET currentPosition == VAdd(ApplyQuaternion(pose.position, transform.rotation),
                                transform.translation)
        currentOrientation == QNormalize(QMul(transform.rotation, pose.orientation))
    IN  [position |-> currentPosition, orientation |-> currentOrientation]

-----------------------------------------------------------------------------
(* visualization/SceneNode.js *)

\* SceneNode.#updateObjectPose(object, pose)
updateObjectPose(object, pose) ==
    [object EXCEPT !.position = pose.position,
                   !.quaternion = QNormalize(pose.orientation),
                   !.visible = TRUE]

\* a TF handler that transforms the node's current pose instead of initialPose
TFUpdateHandlerAccumulating(node, msg) ==
    updateObjectPose(node,
        applyTransform([position |-> node.position, orientation |-> node.quaternion], msg))

\* the closure returned by SceneNode.#createTFUpdateHandler(sceneNodeInstance)
TFUpdateHandler(node, msg) ==
    updateObjectPose(node, applyTransform(node.initialPose, msg))

\* a child of the node: a "Marker" has a dispose method; a "Mesh" has none
\* and is a THREE.Mesh that owns a geometry and a material; a "Group" is a
\* plain THREE.Object3D
ChildKinds == { "Marker", "Mesh", "Group" }
NewChild(kind) ==
    [ kind |-> kind, disposeCalls |-> 0, geometryDisposals |-> 0,
      materialDisposals |-> 0 ]

\* SceneNode.#setup(options): the node after construction; children are the
\* objects added to it (options.object first)
SceneNodeSetup(hasTfClient, hasFrame, pose, children) ==
    updateObjectPose(
        [ initialPose |-> pose,
          children    |-> children,
          unsubscribeCalls |-> 0,
          position    |-> VZero,
          quaternion  |-> QId,
          visible     |-> FALSE,
          hasTfClient |-> hasTfClient,
          hasFrame    |-> hasFrame,
          subscribed  |-> hasTfClient /\ hasFrame,
          disposeCalls |-> 0 ],
        pose)

NodePose(node) == [position |-> node.position, orientation |-> node.quaternion]

-----------------------------------------------------------------------------
(* The SceneNode under a TFClient: specification SpecScene *)

Min(a, b) == IF a < b THEN a ELSE b

\* the values the variables of the other components keep while one runs
DragIdle   == im = [dragging |-> FALSE] /\ imObs = [last |-> "idle"]
MarkerIdle == markers = <<>> /\ rootNodes = {} /\ nodes = <<>> /\ nextId = 1
              /\ mkObs = [client |-> "idle"]
PointIdle  == pts = [kind |-> "idle"] /\ ptObs = [last |-> "idle"]
PoseIdle   == mp = [last |-> "idle"]
TtlIdle    == ttl = [last |-> "idle"]
SceneIdle  == sn = [visible |-> FALSE] /\ tfPending = FALSE /\ lastTf = IdentityTf
              /\ runLen = 0 /\ runPose = IdentityPose

\* new SceneNode({tfClient, frameID, pose}); TFClient.subscribe pushes the
\* callback and schedules callback(defaultTransform) with setTimeout(..., 0)
SceneInit ==
    /\ \E hasTfClient \in BOOLEAN, hasFrame \in BOOLEAN, pose \in Poses :
       \E n \in 0..MaxChildren : \E kinds \in [1..n -> ChildKinds] :
          /\ sn = SceneNodeSetup(hasTfClient, hasFrame, pose,
                                 [i \in 1..n |-> NewChild(kinds[i])])
          /\ tfPending = (hasTfClient /\ hasFrame)
    /\ lastTf = IdentityTf
    /\ runLen = 0
    /\ runPose = IdentityPose

\* the node's callback is invoked with msg
Invoke(msg) ==
    /\ sn' = TFUpdateHandler(sn, msg)
    /\ lastTf' = msg
    /\ IF runLen > 0 /\ msg = lastTf
          THEN runLen' = Min(runLen + 1, MaxRun) /\ runPose' = runPose
          ELSE runLen' = 1 /\ runPose' = NodePose(sn')

\* the transform store delivers a transform to the callbacks of the frame
TFDeliver ==
    /\ sn.subscribed
    /\ \E msg \in Transforms : Invoke(msg)
    /\ UNCHANGED <<tfPending, dragVars, markerVars, pointVars, poseVars, ttlVars, ic, tfc, dec, oc, at, b64, dm, sub, mh, nsf>>

\* the timer set by TFClient.subscribe fires: callback(defaultTransform)
TFDefaultTimer ==
    /\ tfPending
    /\ tfPending' = FALSE
    /\ Invoke(IdentityTf)
    /\ UNCHANGED <<dragVars, markerVars, pointVars, poseVars, ttlVars, ic, tfc, dec, oc, at, b64, dm, sub, mh, nsf>>

\* SceneNode.unsubscribeTf() as called by SceneNode.dispose()
unsubscribeTf(node) ==
    IF node.hasTfClient /\ node.hasFrame
       THEN [node EXCEPT !.subscribed = FALSE, !.unsubscribeCalls = @ + 1]
       ELSE node

\* a forEach body that looks at geometry and material only
DisposeChildResourcesOnly(child) ==
    IF child.kind = "Mesh"
       THEN [child EXCEPT !.geometryDisposals = @ + 1, !.materialDisposals = @ + 1]
       ELSE child

\* the body of this.children.forEach in SceneNode.dispose()
DisposeChild(child) ==
    IF child.kind = "Marker"
       THEN [child EXCEPT !.disposeCalls = @ + 1]
       ELSE IF child.kind = "Mesh"
               THEN [child EXCEPT !.geometryDisposals = @ + 1,
                                  !.materialDisposals = @ + 1]
               ELSE child

\* SceneNode.dispose()
SceneNodeDispose ==
    /\ sn.disposeCalls < MaxDisposeCalls
    /\ sn' = [unsubscribeTf(sn) EXCEPT
                 !.disposeCalls = @ + 1,
                 !.children = [i \in DOMAIN @ |-> DisposeChild(@[i])]]
    /\ UNCHANGED <<tfPending, lastTf, runLen, runPose, dragVars, markerVars, pointVars, poseVars, ttlVars, ic, tfc, dec, oc, at, b64, dm, sub, mh, nsf>>

SceneNext == TFDeliver \/ TFDefaultTimer \/ SceneNodeDispose

InitScene == SceneInit /\ DragIdle /\ MarkerIdle /\ PointIdle /\ PoseIdle /\ TtlIdle /\ ic = [last |-> "idle"] /\ tfc = [last |-> "idle"] /\ dec = [last |-> "idle"] /\ oc = [last |-> "idle"] /\ at = [last |-> "idle"] /\ b64 = [last |-> "idle"] /\ dm = [last |-> "idle"] /\ sub = [last |-> "idle"] /\ mh = [last |-> "idle"] /\ nsf = [last |-> "idle"]

SpecScene == InitScene /\ [][SceneNext]_vars

-----------------------------------------------------------------------------
(* Claims about SceneNode *)

\* C1: after n >= 1 transform deliveries the node's pose is compose(p0, tn),
\* whatever t1..t(n-1) were; with p0 = identity, translation (1,0,0) and then
\* (2,0,0) leaves the node at (2,0,0), not (3,0,0).
C1_PoseIsComposeOfInitialAndLatest ==
    runLen >= 1 =>
       /\ sn.position = VAdd(ApplyQuaternion(sn.initialPose.position, lastTf.rotation),
                             lastTf.translation)
       /\ sn.quaternion = QNormalize(QMul(lastTf.rotation, sn.initialPose.orientation))
       /\ (sn.initialPose = IdentityPose /\ lastTf.rotation = QId)
             => sn.position = lastTf.translation

\* a node with a non-identity initial pose that has received a rotating,
\* translating transform after an earlier, different one
C1_Witness ==
    /\ runLen = 1
    /\ sn.initialPose.position = <<1, 0, 0>>
    /\ sn.initialPose.orientation = <<0, 0, 2, 0>>
    /\ lastTf = [translation |-> <<2, 0, 0>>, rotation |-> <<0, 1, 0, 0>>]
    /\ sn.position = <<1, 0, 0>>
    /\ ~tfPending

\* C2: delivering the same transform N times leaves the node with the pose it
\* had after the first of those deliveries.
C2_RepeatedDeliveryIsIdempotent ==
    runLen >= 1 => NodePose(sn) = runPose

\* the same translating, rotating transform has been delivered MaxRun times or more
C2_Witness ==
    /\ runLen = MaxRun
    /\ lastTf = [translation |-> <<1, 0, 0>>, rotation |-> <<0, 0, 1, 0>>]
    /\ sn.initialPose.position = <<0, 2, 0>>
    /\ sn.position = <<1, -2, 0>>

-----------------------------------------------------------------------------
(* interactivemarkers/InteractiveMarker.js, InteractiveMarkerHandle.js:      *)
(* specification SpecDrag                                                  *)

\* "undefined", as the value of bufferedPoseEvent
Undefined == [undefined |-> TRUE]

\* poses the interactive marker server pushes, frame transforms of the marker
ServerPoses == { IdentityPose,
                 [position |-> <<1, 0, 0>>, orientation |-> QId],
                 [position |-> <<0, 2, 0>>, orientation |-> <<0, 0, 1, 0>>] }
HandleTransforms == { IdentityTf,
                      [translation |-> <<2, 0, 0>>, rotation |-> QId],
                      [translation |-> <<0, 0, 1>>, rotation |-> <<0, 1, 0, 0>>] }
DragPositions == { <<3, 0, 0>>, <<0, 3, 0>> }
DragRotations == { <<0, 2, 0, 0>> }
\* what intersectPlane returns when the ray does not meet the plane
NoIntersection == << >>
Buttons == { 0, 2 }

\* InteractiveMarkerHandle.emitServerPoseUpdate(): the pose handed to the
\* 'pose' listeners, new ROSLIB.Pose(this.pose).applyTransform(this.tfTransform)
emitServerPoseUpdate(handlePose, tfTransform) ==
    [ position |-> VAdd(ApplyQuaternion(handlePose.position, tfTransform.rotation),
                        tfTransform.translation),
      orientation |-> QMul(tfTransform.rotation, handlePose.orientation) ]

\* onServerSetPose that applies the event whether or not a drag is going on
onServerSetPoseUnguarded(m, event) ==
    IF event # Undefined
       THEN [m EXCEPT !.position = event.pose.position,
                      !.quaternion = event.pose.orientation,
                      !.applied = @ + 1]
       ELSE m

\* InteractiveMarker.onServerSetPose(event); applied counts the poses this
\* call copied into the marker
onServerSetPose(m, event) ==
    IF event # Undefined
       THEN IF m.dragging
               THEN [m EXCEPT !.bufferedPoseEvent = event]
               ELSE [m EXCEPT !.position = event.pose.position,
                              !.quaternion = event.pose.orientation,
                              !.applied = @ + 1]
       ELSE m

\* a startDrag that does not look at the button
startDragAnyButton(m, button) ==
    [m EXCEPT !.dragging = TRUE,
              !.dragStart = [position |-> m.position, orientation |-> m.quaternion],
              !.feedback = "user-mousedown",
              !.stopped = TRUE]

\* InteractiveMarker.startDrag(control, event3d); feedback is the type handed
\* to feedbackEvent by the call, stopped whether it called
\* event3d.stopPropagation()
startDrag(m, button) ==
    IF button = 0
       THEN [m EXCEPT !.dragging = TRUE,
                      !.dragStart = [position |-> m.position,
                                     orientation |-> m.quaternion],
                      !.feedback = "user-mousedown",
                      !.stopped = TRUE]
       ELSE m

\* a stopDrag that applies the buffered pose and leaves it in the slot
stopDragKeepingBuffer(m, button) ==
    IF button = 0
       THEN [onServerSetPose([m EXCEPT !.dragging = FALSE], m.bufferedPoseEvent)
                EXCEPT !.feedback = "user-mouseup",
                       !.stopped = TRUE]
       ELSE m

\* InteractiveMarker.stopDrag(control, event3d)
stopDrag(m, button) ==
    IF button = 0
       THEN [onServerSetPose([m EXCEPT !.dragging = FALSE], m.bufferedPoseEvent)
                EXCEPT !.bufferedPoseEvent = Undefined,
                       !.feedback = "user-mouseup",
                       !.stopped = TRUE]
       ELSE m

\* InteractiveMarker.setPosition(control, position)
setPosition(m, position) ==
    [m EXCEPT !.position = position, !.feedback = "user-pose-change"]

\* InteractiveMarker.setOrientation(control, orientation)
setOrientation(m, orientation) ==
    [m EXCEPT !.quaternion = QNormalize(orientation),
              !.feedback = "user-pose-change"]

\* a Vector3 whose components are NaN
NaNVector == << -1000, -1000, -1000 >>

\* findClosestPoint(targetRay, mouseRay): << >> for undefined, <<t>> for the
\* number t. With whole-number rays Math.abs(denom) <= 0.0001 is denom = 0
findClosestPoint(targetRay, mouseRay) ==
    LET VDot(a, b) == a[1] * b[1] + a[2] * b[2] + a[3] * b[3]
        v13 == << targetRay.origin[1] - mouseRay.origin[1],
                  targetRay.origin[2] - mouseRay.origin[2],
                  targetRay.origin[3] - mouseRay.origin[3] >>
        v43 == mouseRay.direction
        v21 == targetRay.direction
        d1343 == VDot(v13, v43)
        d4321 == VDot(v43, v21)
        d1321 == VDot(v13, v21)
        d4343 == VDot(v43, v43)
        d2121 == VDot(v21, v21)
        denom == d2121 * d4343 - d4321 * d4321
        numer == d1343 * d4321 - d1321 * d4343
    IN  IF denom = 0 THEN << >> ELSE << numer \div denom >>

\* p of moveAxis: dragStart.position + axis * t. The axis ray starts where
\* the drag started, mpRay is the ray closestAxisPoint casts through the
\* projected mouse position; multiplyScalar(undefined) makes every
\* component NaN, and so does a NaN in the drag start
AxisPoint(m, axis, mpRay) ==
    LET t == findClosestPoint([origin |-> m.dragStart.position, direction |-> axis],
                              mpRay)
    IN  IF t = << >> \/ m.dragStart.position = NaNVector
           THEN NaNVector
           ELSE VAdd(m.dragStart.position,
                     << axis[1] * t[1], axis[2] * t[1], axis[3] * t[1] >>)

\* a moveAxis that does not look at the dragging flag
moveAxisUnguarded(m, axis, mpRay) ==
    [setPosition(m, AxisPoint(m, axis, mpRay)) EXCEPT !.stopped = TRUE]

\* InteractiveMarker.moveAxis(control, origAxis, event3d); axis is origAxis
\* turned by the control's and the drag start's orientation
moveAxis(m, axis, mpRay) ==
    IF m.dragging
       THEN [setPosition(m, AxisPoint(m, axis, mpRay)) EXCEPT !.stopped = TRUE]
       ELSE m

\* InteractiveMarker.movePlane(control, origNormal, event3d), also reached
\* from move3d; p is dragStart.positionWorld + intersection - originWorld,
\* NoIntersection when intersectPlane finds none
movePlane(m, p) ==
    IF m.dragging /\ p # NoIntersection
       THEN [setPosition(m, p) EXCEPT !.stopped = TRUE]
       ELSE m

\* InteractiveMarker.rotateAxis(control, origOrientation, event3d); rot is
\* rot.multiply(dragStart.orientationWorld), NoIntersection when one of the
\* two plane intersections is missing
rotateAxis(m, rot) ==
    IF m.dragging /\ rot # NoIntersection
       THEN [setOrientation(m, rot) EXCEPT !.stopped = TRUE]
       ELSE m

MarkerPose(m) == [position |-> m.position, orientation |-> m.quaternion]

\* new InteractiveMarkerHandle({message}) and new InteractiveMarker({handle}):
\* the constructor applies handle.pose with dragging = false
DragInit ==
    /\ \E pose \in ServerPoses :
          im = [ dragging |-> FALSE,
                 position |-> pose.position,
                 quaternion |-> pose.orientation,
                 bufferedPoseEvent |-> Undefined,
                 dragStart |-> IdentityPose,
                 applied |-> 0,
                 feedback |-> "none",
                 stopped |-> FALSE,
                 handlePose |-> pose,
                 tfTransform |-> IdentityTf ]
    /\ imObs = [last |-> "new", pushes |-> 0, lastPush |-> Undefined, button |-> 0,
                reconciled |-> FALSE, degenerate |-> FALSE]

\* the handle's 'pose' listener of InteractiveMarkerClient.processUpdate
PoseListener(m, pose) ==
    onServerSetPose([m EXCEPT !.applied = 0, !.feedback = "none", !.stopped = FALSE],
                    [pose |-> pose])

NotePush(pose) ==
    imObs' = [ last |-> "push",
               pushes |-> IF im.dragging THEN Min(imObs.pushes + 1, MaxPushes) ELSE 0,
               lastPush |-> IF im.dragging THEN pose ELSE Undefined,
               button |-> 0,
               reconciled |-> imObs.reconciled,
               degenerate |-> FALSE ]

\* InteractiveMarkerHandle.setPoseFromServer(poseMsg)
SetPoseFromServer ==
    \E poseMsg \in ServerPoses :
       LET emitted == emitServerPoseUpdate(poseMsg, im.tfTransform)
       IN  /\ im' = PoseListener([im EXCEPT !.handlePose = poseMsg], emitted)
           /\ NotePush(emitted)
           /\ UNCHANGED <<sceneVars, markerVars, pointVars, poseVars, ttlVars, ic, tfc, dec, oc, at, b64, dm, sub, mh, nsf>>

\* InteractiveMarkerHandle.tfUpdate(transformMsg)
TfUpdate ==
    \E transformMsg \in HandleTransforms :
       LET emitted == emitServerPoseUpdate(im.handlePose, transformMsg)
       IN  /\ im' = PoseListener([im EXCEPT !.tfTransform = transformMsg], emitted)
           /\ NotePush(emitted)
           /\ UNCHANGED <<sceneVars, markerVars, pointVars, poseVars, ttlVars, ic, tfc, dec, oc, at, b64, dm, sub, mh, nsf>>

\* mousedown on a control
StartDrag ==
    \E button \in Buttons :
       /\ im' = startDrag([im EXCEPT !.applied = 0, !.feedback = "none", !.stopped = FALSE], button)
       /\ imObs' = IF button = 0 /\ ~im.dragging
                      THEN [last |-> "startDrag", pushes |-> 0, lastPush |-> Undefined,
                            button |-> button, reconciled |-> imObs.reconciled,
                            degenerate |-> FALSE]
                      ELSE [imObs EXCEPT !.last = "startDrag", !.button = button,
                                         !.degenerate = FALSE]
       /\ UNCHANGED <<sceneVars, markerVars, pointVars, poseVars, ttlVars, ic, tfc, dec, oc, at, b64, dm, sub, mh, nsf>>

\* mouseup on a control
StopDrag ==
    \E button \in Buttons :
       /\ im' = stopDrag([im EXCEPT !.applied = 0, !.feedback = "none", !.stopped = FALSE], button)
       /\ imObs' = [imObs EXCEPT !.last = "stopDrag", !.button = button,
                                 !.degenerate = FALSE,
                                 !.reconciled = @ \/ (button = 0 /\ im.dragging
                                                        /\ imObs.pushes >= 1)]
       /\ UNCHANGED <<sceneVars, markerVars, pointVars, poseVars, ttlVars, ic, tfc, dec, oc, at, b64, dm, sub, mh, nsf>>

\* mousemove or touchmove on a MOVE_AXIS control whose axis is x or y. mpRay
\* is the ray closestAxisPoint casts from the camera, here at (0, 0, 3),
\* through the projected mouse position (the direction is not normalized: the
\* parameter findClosestPoint returns does not depend on its length)
UserMove ==
    \E axis \in { <<1, 0, 0>>, <<0, 1, 0>> } :
    \E direction \in { <<0, 1, -1>>, <<1, 0, 0>> } :
       LET mpRay == [origin |-> <<0, 0, 3>>, direction |-> direction]
       IN  /\ im' = moveAxis([im EXCEPT !.applied = 0, !.feedback = "none",
                                        !.stopped = FALSE], axis, mpRay)
           /\ imObs' = [imObs EXCEPT !.last = "move", !.button = 0,
                                     !.degenerate =
                                        im.dragging
                                        /\ findClosestPoint(
                                              [origin |-> im.dragStart.position,
                                               direction |-> axis], mpRay) = << >>]
       /\ UNCHANGED <<sceneVars, markerVars, pointVars, poseVars, ttlVars, ic, tfc, dec, oc, at, b64, dm, sub, mh, nsf>>

\* mousemove on a MOVE_PLANE, MOVE_3D or MOVE_ROTATE_3D control
UserMovePlane ==
    \E position \in DragPositions \cup {NoIntersection} :
       /\ im' = movePlane([im EXCEPT !.applied = 0, !.feedback = "none",
                                     !.stopped = FALSE], position)
       /\ imObs' = [imObs EXCEPT !.last = "move", !.button = 0,
                                 !.degenerate = im.dragging /\ position = NoIntersection]
       /\ UNCHANGED <<sceneVars, markerVars, pointVars, poseVars, ttlVars, ic, tfc, dec, oc, at, b64, dm, sub, mh, nsf>>

\* mousemove on a ROTATE_AXIS control
UserRotate ==
    \E rot \in DragRotations \cup {NoIntersection} :
       /\ im' = rotateAxis([im EXCEPT !.applied = 0, !.feedback = "none",
                                      !.stopped = FALSE], rot)
       /\ imObs' = [imObs EXCEPT !.last = "move", !.button = 0,
                                 !.degenerate = im.dragging /\ rot = NoIntersection]
       /\ UNCHANGED <<sceneVars, markerVars, pointVars, poseVars, ttlVars, ic, tfc, dec, oc, at, b64, dm, sub, mh, nsf>>

DragNext ==
    \/ SetPoseFromServer \/ TfUpdate \/ StartDrag \/ StopDrag
    \/ UserMove \/ UserMovePlane \/ UserRotate

InitDrag == DragInit /\ SceneIdle /\ MarkerIdle /\ PointIdle /\ PoseIdle /\ TtlIdle /\ ic = [last |-> "idle"] /\ tfc = [last |-> "idle"] /\ dec = [last |-> "idle"] /\ oc = [last |-> "idle"] /\ at = [last |-> "idle"] /\ b64 = [last |-> "idle"] /\ dm = [last |-> "idle"] /\ sub = [last |-> "idle"] /\ mh = [last |-> "idle"] /\ nsf = [last |-> "idle"]

SpecDrag == InitDrag /\ [][DragNext]_vars

\* C3: server pose or transform updates that arrive during a drag do not
\* change the marker's pose while dragging is true; when the drag stops,
\* exactly one of them, the last to arrive, is applied, exactly once.
C3_DragBuffersServerPose ==
    [][ /\ (im.dragging /\ imObs'.last = "push")
            => (MarkerPose(im') = MarkerPose(im) /\ im'.applied = 0 /\ im'.dragging)
        /\ (im.dragging /\ ~im'.dragging /\ imObs.pushes >= 1)
            => (MarkerPose(im') = imObs.lastPush /\ im'.applied = 1) ]_vars

\* a drag during which three pushes arrived and the user moved the marker
\* has just been stopped, and the marker shows the last push
C3_Witness ==
    /\ imObs.last = "stopDrag"
    /\ ~im.dragging
    /\ imObs.pushes = 3
    /\ im.applied = 1
    /\ im.dragStart.position # im.position
    /\ MarkerPose(im) = imObs.lastPush
    /\ im.position = <<0, 0, 1>>

-----------------------------------------------------------------------------
(* markers/Marker.js, MarkerClient.js, MarkerArrayClient.js:                *)
(* specification SpecMarker                                                *)

\* constants/marker.constants.js
MARKER_ARROW == 0
MARKER_CUBE == 1
MARKER_SPHERE == 2
MARKER_CYLINDER == 3
MARKER_LINE_STRIP == 4
MARKER_LINE_LIST == 5
MARKER_CUBE_LIST == 6
MARKER_SPHERE_LIST == 7
MARKER_POINTS == 8
MARKER_TEXT_VIEW_FACING == 9
MARKER_MESH_RESOURCE == 10
MARKER_TRIANGLE_LIST == 11

\* message.action
ACTION_ADD == 0
ACTION_DEPRECATED == 1
ACTION_DELETE == 2
ACTION_DELETEALL == 3
ACTION_UNKNOWN == 7

\* `${message.ns}/${message.id}`
Keys == { "a/0", "a/1", "b/0" }

\* primitive types whose child geometry has one vertex / instance per point
PointTypes == { MARKER_LINE_STRIP, MARKER_LINE_LIST, MARKER_CUBE_LIST,
                MARKER_SPHERE_LIST, MARKER_POINTS }
MsgTypes == { MARKER_ARROW, MARKER_CUBE, MARKER_LINE_STRIP, MARKER_CUBE_LIST,
              MARKER_TEXT_VIEW_FACING, MARKER_MESH_RESOURCE, MARKER_TRIANGLE_LIST }
Scales == { <<1, 1, 1>>, <<2, 1, 1>> }
Colors == { <<1, 0, 0, 1>>, <<0, 1, 0, 1>> }

Msg(key, action, type, points, scale, color) ==
    [ key |-> key, action |-> action, type |-> type, points |-> points,
      scale |-> scale, color |-> color ]

\* visualization_msgs/Marker messages.  Key "a/0" receives ADD/MODIFY of every
\* type, point count and scale, and cubes of either colour; the other keys
\* receive a plain cube.
\* points[] is filled for the point-bearing types only, and messages that are
\* not ADD/MODIFY carry default fields.
AddMessages ==
    { m \in [ key : {"a/0"}, action : {ACTION_ADD}, type : MsgTypes,
              points : 0..MaxPoints, scale : Scales, color : Colors ] :
        /\ IF m.type \in PointTypes THEN m.points >= 1 ELSE m.points = 0
        /\ m.type # MARKER_CUBE => m.color = <<1, 0, 0, 1>> }
    \cup { Msg(k, ACTION_ADD, MARKER_CUBE, 0, <<1, 1, 1>>, <<1, 0, 0, 1>>) :
              k \in Keys \ {"a/0"} }
OtherMessages ==
    { Msg(k, ACTION_DELETE, MARKER_ARROW, 0, <<1, 1, 1>>, <<1, 0, 0, 1>>) : k \in Keys }
    \cup { Msg("a/0", a, MARKER_ARROW, 0, <<1, 1, 1>>, <<1, 0, 0, 1>>) :
              a \in {ACTION_DEPRECATED, ACTION_DELETEALL, ACTION_UNKNOWN} }
Messages == AddMessages \cup OtherMessages

\* the entries of visualization_msgs/MarkerArray messages
ArrayMessages ==
    { Msg(k, ACTION_ADD, MARKER_CUBE, 0, <<1, 1, 1>>, <<1, 0, 0, 1>>) : k \in {"a/1"} }
    \cup { Msg("a/0", ACTION_ADD, MARKER_TRIANGLE_LIST, 0, sc, <<1, 0, 0, 1>>) : sc \in Scales }
    \cup { Msg("a/0", a, MARKER_ARROW, 0, <<1, 1, 1>>, <<1, 0, 0, 1>>) :
              a \in {ACTION_DELETE, ACTION_DELETEALL, ACTION_DEPRECATED, ACTION_UNKNOWN} }

\* new Marker({message}): init() always adds the object createMarkerObject
\* returns; count is positions.count of a line / points geometry or the
\* instance count of an InstancedMesh
NewMarker(message) ==
    [ type     |-> message.type,
      msgScale |-> message.scale,
      msgColor |-> message.color,
      count    |-> IF message.type \in PointTypes THEN message.points ELSE 0,
      children |-> 1 ]

\* a Marker after dispose(): every child removed
DisposedMarker == [children |-> 0]

\* an update that does not compare the point count with the geometry
MarkerUpdateIgnoringCount(marker, message) ==
    IF message.type # marker.type
       THEN [ok |-> FALSE, marker |-> marker]
       ELSE [ok |-> TRUE, marker |-> [marker EXCEPT !.msgScale = message.scale,
                                                    !.msgColor = message.color]]

\* an update that rescales every primitive in place
MarkerUpdateRescalingInPlace(marker, message) ==
    IF message.type # marker.type
       THEN [ok |-> FALSE, marker |-> marker]
       ELSE IF message.type \in PointTypes /\ message.points # marker.count
       THEN [ok |-> FALSE, marker |-> marker]
       ELSE [ok |-> TRUE, marker |-> [marker EXCEPT !.msgScale = message.scale,
                                                    !.msgColor = message.color]]

\* Marker.update(message): ok is the value returned
MarkerUpdate(marker, message) ==
    IF message.type # marker.type
       THEN [ok |-> FALSE, marker |-> marker]
       ELSE IF marker.children = 0
       THEN [ok |-> FALSE, marker |-> marker]
       ELSE
         LET recolored == [marker EXCEPT !.msgColor = message.color]
             scaleChanged == message.scale # marker.msgScale
             rescaled == IF scaleChanged
                            THEN [recolored EXCEPT !.msgScale = message.scale]
                            ELSE recolored
         IN  IF scaleChanged /\ message.type \in
                    { MARKER_ARROW, MARKER_TEXT_VIEW_FACING,
                      MARKER_MESH_RESOURCE, MARKER_TRIANGLE_LIST }
                THEN [ok |-> FALSE, marker |-> rescaled]
                ELSE IF message.type \in PointTypes /\ message.points # marker.count
                THEN [ok |-> FALSE, marker |-> rescaled]
                ELSE [ok |-> TRUE, marker |-> rescaled]

\* new SceneNode({frameID, tfClient, object: newMarker, pose})
NewMarkerNode(message) ==
    [ disposeCalls |-> 0, subscribed |-> TRUE, marker |-> NewMarker(message) ]

\* SceneNode.dispose() on a marker node: unsubscribeTf(), Marker.dispose()
DisposeNode(node) ==
    [node EXCEPT !.disposeCalls = @ + 1, !.subscribed = FALSE,
                 !.marker = DisposedMarker]

\* the client: this.markers, the SceneNode children of this.rootObject, and
\* the SceneNodes constructed so far
ClientState == [markers |-> markers, rootNodes |-> rootNodes, nodes |-> nodes,
                nextId |-> nextId]

\* a removeMarker that forgets the key but leaves the node alone
removeMarkerForgetOnly(st, key) ==
    [st EXCEPT !.markers[key] = 0]

\* a removeMarker that disposes the node but keeps the key in the map
removeMarkerKeepKey(st, key) ==
    LET id == st.markers[key]
    IN  IF id # 0
           THEN [st EXCEPT !.nodes[id] = DisposeNode(@), !.rootNodes = @ \ {id}]
           ELSE st

\* removeMarker(key); SceneNode.dispose() removes the node from its parent
removeMarker(st, key) ==
    LET id == st.markers[key]
    IN  IF id # 0
           THEN [st EXCEPT !.nodes[id] = DisposeNode(@),
                           !.rootNodes = @ \ {id},
                           !.markers[key] = 0]
           ELSE st

RECURSIVE RemoveEach(_, _)
RemoveEach(st, keys) ==
    IF keys = {} THEN st
    ELSE LET key == CHOOSE k \in keys : TRUE
         IN  RemoveEach(removeMarker(st, key), keys \ {key})

\* a removeAllMarkers that only resets the map
removeAllMarkersMapOnly(st) ==
    [st EXCEPT !.markers = [k \in Keys |-> 0]]

\* removeAllMarkers(): for (const key in this.markers) removeMarker(key)
removeAllMarkers(st) ==
    [RemoveEach(st, { k \in Keys : st.markers[k] # 0 })
        EXCEPT !.markers = [k \in Keys |-> 0]]

\* the ADD/MODIFY branch of processMessage
AddOrModify(st, message) ==
    LET key == message.key
        live == st.markers[key] # 0
        res == IF live THEN MarkerUpdate(st.nodes[st.markers[key]].marker, message)
                       ELSE [ok |-> FALSE]
        updated == live /\ res.ok
        afterUpdate == IF live
                          THEN [st EXCEPT !.nodes[st.markers[key]].marker = res.marker]
                          ELSE st
        cleared == IF live /\ ~updated THEN removeMarker(afterUpdate, key)
                   ELSE afterUpdate
    IN  IF updated THEN cleared
        ELSE [cleared EXCEPT !.nodes = Append(@, NewMarkerNode(message)),
                             !.markers[key] = cleared.nextId,
                             !.rootNodes = @ \cup {cleared.nextId},
                             !.nextId = @ + 1]

\* a handler that takes action 1 for MODIFY, as the message definition once did
ProcessOneModifyOnOne(st, message) ==
    IF message.action \in {ACTION_ADD, ACTION_DEPRECATED} THEN AddOrModify(st, message)
    ELSE IF message.action = ACTION_DELETE THEN removeMarker(st, message.key)
    ELSE IF message.action = ACTION_DELETEALL THEN removeAllMarkers(st)
    ELSE st

\* one marker message, as handled by MarkerClient.processMessage and by the
\* body of the forEach of MarkerArrayClient.processMessage
ProcessOne(st, message) ==
    IF message.action = ACTION_ADD THEN AddOrModify(st, message)
    ELSE IF message.action = ACTION_DELETE THEN removeMarker(st, message.key)
    ELSE IF message.action = ACTION_DELETEALL THEN removeAllMarkers(st)
    ELSE st

\* a forEach that walks the entries from the last to the first
RECURSIVE ProcessEachBackwards(_, _)
ProcessEachBackwards(st, msgs) ==
    IF msgs = <<>> THEN st
    ELSE ProcessOne(ProcessEachBackwards(st, Tail(msgs)), Head(msgs))

\* arrayMessage.markers.forEach(...)
RECURSIVE ProcessEach(_, _)
ProcessEach(st, msgs) ==
    IF msgs = <<>> THEN st
    ELSE ProcessEach(ProcessOne(st, Head(msgs)), Tail(msgs))

MarkerInit ==
    /\ markers = [k \in Keys |-> 0]
    /\ rootNodes = {}
    /\ nodes = <<>>
    /\ nextId = 1
    /\ \E client \in {"MarkerClient", "MarkerArrayClient"} :
          mkObs = [client |-> client, entries |-> 0, outcome |-> "new", was |-> 0]

\* what a message made of the single entry `message` did to the client, as
\* seen from outside: the state before is the current one, st is the result
Outcome(st, message) ==
    LET key == message.key
        old == markers[key]
    IN  IF message.action = ACTION_ADD
           THEN IF old = 0 THEN "created"
                ELSE IF st.markers[key] = old THEN "updated"
                ELSE IF nodes[old].marker.type # message.type THEN "rebuilt-type"
                ELSE IF nodes[old].marker.msgScale # message.scale
                        /\ message.type \notin PointTypes THEN "rebuilt-scale"
                ELSE "rebuilt-count"
        ELSE IF message.action = ACTION_DELETE
           THEN IF old = 0 THEN "absent" ELSE "deleted"
        ELSE IF message.action = ACTION_DELETEALL THEN "cleared"
        ELSE "ignored"

\* the point count (for a rebuild on a count change) or the number of live
\* keys (for DELETE_ALL) before the message
Was(message, outcome) ==
    IF outcome = "rebuilt-count" THEN nodes[markers[message.key]].marker.count
    ELSE IF outcome = "cleared" THEN Cardinality({ k \in Keys : markers[k] # 0 })
    ELSE 0

\* the keys that are live once the action of `message` has been applied to a
\* map whose live keys are `live`
KeysAfter(live, message) ==
    IF message.action = ACTION_ADD THEN live \cup {message.key}
    ELSE IF message.action = ACTION_DELETE THEN live \ {message.key}
    ELSE IF message.action = ACTION_DELETEALL THEN {}
    ELSE live

\* the same for the entries of msgs applied one after another, first to last
RECURSIVE KeysAfterEach(_, _)
KeysAfterEach(live, msgs) ==
    IF msgs = <<>> THEN live
    ELSE KeysAfterEach(KeysAfter(live, Head(msgs)), Tail(msgs))

Install(st, msgs) ==
    /\ st.nextId <= MaxNodes + 1
    /\ markers' = st.markers
    /\ rootNodes' = st.rootNodes
    /\ nodes' = st.nodes
    /\ nextId' = st.nextId
    /\ LET outcome == IF Len(msgs) = 1 THEN Outcome(st, msgs[1]) ELSE "array"
       IN  mkObs' = [ client |-> mkObs.client, entries |-> Len(msgs),
                      last |-> msgs[Len(msgs)], outcome |-> outcome,
                      was |-> IF Len(msgs) = 1
                                 THEN Was(msgs[1], outcome)
                                 ELSE Cardinality({ k \in Keys : markers[k] # 0 }),
                      inOrder |-> KeysAfterEach({ k \in Keys : markers[k] # 0 }, msgs) ]
    /\ UNCHANGED <<sceneVars, dragVars, pointVars, poseVars, ttlVars, ic, tfc, dec, oc, at, b64, dm, sub, mh, nsf>>

\* MarkerClient.processMessage(message)
MarkerClientProcessMessage ==
    /\ mkObs.client = "MarkerClient"
    /\ \E message \in Messages :
          Install(ProcessOne(ClientState, message), <<message>>)

\* MarkerArrayClient.processMessage(arrayMessage)
MarkerArrayClientProcessMessage ==
    /\ mkObs.client = "MarkerArrayClient"
    /\ \E n \in 1..MaxArrayLen : \E msgs \in [1..n -> ArrayMessages] :
          Install(ProcessEach(ClientState, msgs), msgs)

MarkerNext == MarkerClientProcessMessage \/ MarkerArrayClientProcessMessage

InitMarker == MarkerInit /\ SceneIdle /\ DragIdle /\ PointIdle /\ PoseIdle /\ TtlIdle /\ ic = [last |-> "idle"] /\ tfc = [last |-> "idle"] /\ dec = [last |-> "idle"] /\ oc = [last |-> "idle"] /\ at = [last |-> "idle"] /\ b64 = [last |-> "idle"] /\ dm = [last |-> "idle"] /\ sub = [last |-> "idle"] /\ mh = [last |-> "idle"] /\ nsf = [last |-> "idle"]

SpecMarker == InitMarker /\ [][MarkerNext]_vars

-----------------------------------------------------------------------------
(* Claims about the marker clients *)

LiveKeys == { k \in Keys : markers[k] # 0 }
Constructed == 1..(nextId - 1)

\* C4: after every processed message the root object holds exactly one
\* SceneNode for each key of the markers map and no marker SceneNode of any
\* other key: one live node at most per key.
C4_OneLiveNodePerKey ==
    /\ rootNodes = { markers[k] : k \in LiveKeys }
    /\ \A j, k \in LiveKeys : markers[j] = markers[k] => j = k
    /\ Cardinality(rootNodes) = Cardinality(LiveKeys)
    /\ \A k \in LiveKeys : markers[k] \in Constructed
                           /\ nodes[markers[k]].disposeCalls = 0

\* key "a/0" was rebuilt while another key is live
C4_Witness ==
    /\ mkObs.outcome \in {"rebuilt-type", "rebuilt-count", "rebuilt-scale"}
    /\ markers["a/0"] = 3
    /\ markers["a/1"] = 2
    /\ rootNodes = {2, 3}
    /\ nodes[1].disposeCalls = 1

\* the step processed one message whose single entry is ADD/MODIFY for key k
\* and key k was live before it
ModifiesLive(k) ==
    /\ mkObs'.entries = 1
    /\ mkObs'.last.action = ACTION_ADD
    /\ mkObs'.last.key = k
    /\ markers[k] # 0

\* after the step the old node of key k is disposed and out of the scene and
\* a node newly constructed from the message is installed under k
Rebuilt(k) ==
    /\ nodes'[markers[k]].disposeCalls = 1
    /\ ~nodes'[markers[k]].subscribed
    /\ markers[k] \notin rootNodes'
    /\ markers'[k] = nextId
    /\ nextId' = nextId + 1
    /\ nextId \in rootNodes'
    /\ nodes'[nextId] = [ disposeCalls |-> 0, subscribed |-> TRUE,
                          marker |-> [ type |-> mkObs'.last.type,
                                       msgScale |-> mkObs'.last.scale,
                                       msgColor |-> mkObs'.last.color,
                                       count |-> mkObs'.last.points,
                                       children |-> 1 ] ]

\* C5: for a live LINE_STRIP marker with k points, an ADD/MODIFY of the same
\* type with k points keeps the same SceneNode under the key, not disposed;
\* one with k+1 or k-1 points disposes the old SceneNode and installs a newly
\* constructed one.
C5_LineStripUpdateOrRebuild ==
    [][ \A k \in Keys :
          ( /\ ModifiesLive(k)
            /\ nodes[markers[k]].marker.type = MARKER_LINE_STRIP
            /\ mkObs'.last.type = MARKER_LINE_STRIP )
          => LET c == nodes[markers[k]].marker.count
                 p == mkObs'.last.points
             IN  /\ p = c => ( /\ markers'[k] = markers[k]
                               /\ nodes'[markers[k]].disposeCalls = 0
                               /\ nodes'[markers[k]].marker.count = c
                               /\ markers[k] \in rootNodes'
                               /\ nextId' = nextId )
                 /\ p \in {c + 1, c - 1} => Rebuilt(k) ]_vars

\* a 2-point line strip has just been replaced by a 3-point one
C5_Witness ==
    /\ mkObs.outcome = "rebuilt-count"
    /\ mkObs.was = 2
    /\ mkObs.last.type = MARKER_LINE_STRIP
    /\ mkObs.last.points = 3
    /\ nodes[markers["a/0"]].marker.count = 3
    /\ nodes[markers["a/0"] - 1].disposeCalls = 1

\* C6: when an ADD/MODIFY for a live key cannot be applied in place (type
\* changed, point count changed, or scale changed on an arrow, text,
\* mesh-resource or triangle-list marker), the old node is disposed, a fresh
\* one is constructed from the message and the key is live afterwards.
C6_RefusedUpdateRebuilds ==
    [][ \A k \in Keys :
          ( /\ ModifiesLive(k)
            /\ LET old == nodes[markers[k]].marker
                   m == mkObs'.last
               IN  \/ m.type # old.type
                   \/ m.type \in PointTypes /\ m.points # old.count
                   \/ /\ m.type \in { MARKER_ARROW, MARKER_TEXT_VIEW_FACING,
                                      MARKER_MESH_RESOURCE, MARKER_TRIANGLE_LIST }
                      /\ m.scale # old.msgScale )
          => Rebuilt(k) ]_vars

\* a MarkerArray entry changed the scale of a live triangle list
C6_Witness ==
    /\ mkObs.client = "MarkerArrayClient"
    /\ mkObs.outcome = "rebuilt-scale"
    /\ mkObs.last.type = MARKER_TRIANGLE_LIST
    /\ markers["a/0"] = nextId - 1
    /\ markers["a/0"] \in rootNodes

\* C7: after ADDs on distinct keys followed by one DELETE_ALL no key is live
\* and every SceneNode ever constructed has been disposed exactly once.
C7_DeleteAllDisposesEachOnce ==
    (mkObs.entries >= 1 /\ mkObs.last.action = ACTION_DELETEALL)
       => /\ LiveKeys = {}
          /\ rootNodes = {}
          /\ \A id \in Constructed : nodes[id].disposeCalls = 1
                                      /\ ~nodes[id].subscribed

\* three ADDs on three distinct keys constructed three nodes, DELETE_ALL came
C7_Witness ==
    /\ mkObs.outcome = "cleared"
    /\ mkObs.was = 3
    /\ nextId = 4
    /\ LiveKeys = {}
    /\ \A id \in 1..3 : nodes[id].disposeCalls = 1

\* C8: DELETE for a live key disposes that key's node and removes the key,
\* every other key and node is untouched; DELETE for an absent key changes
\* nothing.
C8_DeleteTouchesOneKey ==
    [][ \A k \in Keys :
          ( mkObs'.entries = 1 /\ mkObs'.last.action = ACTION_DELETE
            /\ mkObs'.last.key = k )
          => IF markers[k] # 0
                THEN /\ markers' = [markers EXCEPT ![k] = 0]
                     /\ rootNodes' = rootNodes \ {markers[k]}
                     /\ nodes'[markers[k]].disposeCalls = 1
                     /\ ~nodes'[markers[k]].subscribed
                     /\ \A id \in Constructed \ {markers[k]} : nodes'[id] = nodes[id]
                     /\ nextId' = nextId
                ELSE /\ markers' = markers /\ rootNodes' = rootNodes
                     /\ nodes' = nodes /\ nextId' = nextId ]_vars

\* key "a/0" has just been deleted while two other keys stay live
C8_Witness ==
    /\ mkObs.outcome = "deleted"
    /\ mkObs.last.key = "a/0"
    /\ markers["a/0"] = 0
    /\ markers["a/1"] # 0
    /\ markers["b/0"] # 0
    /\ Cardinality(rootNodes) = 2

-----------------------------------------------------------------------------
(* Points, LaserScan and PointCloud2 (src/src/sensors) *)

\* bounds of the sensor configurations and messages
MaxPts == 3
MaxPointRatio == 2
MaxMessageRatio == 2
MaxRanges == 3
MaxRecords == 4

Max(a, b) == IF a >= b THEN a ELSE b
CeilDiv(a, b) == (a + b - 1) \div b

\* msg.point_step of the clouds received; x, y, z are float32 fields
PointSteps == { 12, 16 }
FieldOffsets == [x |-> 0, y |-> 4, z |-> 8]
Float32Bytes == FieldOffsets.y - FieldOffsets.x

\* length of the base64 text that encodes a payload of `bytes` bytes
Base64Length(bytes) == 4 * CeilDiv(bytes, 3)

\* the loop of decode64, on the lengths only: x is the index in the text,
\* l the number of pending bits, j the number of bytes stored so far
RECURSIVE decode64Loop(_, _, _, _, _, _, _)
decode64Loop(x, l, j, L, A, record_size, bitskip) ==
    IF x >= L \/ j >= A
       THEN j
    ELSE IF l + 6 < 8
       THEN decode64Loop(x + 1, l + 6, j, L, A, record_size, bitskip)
    ELSE IF (j + 1) % record_size = 0 /\ bitskip > 0
       THEN decode64Loop(x + CeilDiv(bitskip - (l + 6 - 8), 6) + 1, (l + 6 - 8) % 8,
                         j + 1, L, A, record_size, bitskip)
    ELSE decode64Loop(x + 1, l + 6 - 8, j + 1, L, A, record_size, bitskip)

\* decode64(inbytes, outbytes, record_size, pointRatio): the number of records
\* decoded, for a text of L characters and an output array of A bytes
decode64(L, A, record_size, pointRatio) ==
    LET rs == IF record_size = 0 THEN A ELSE record_size
        pr == IF pointRatio = 0 THEN 1 ELSE pointRatio
        bitskip == (pr - 1) * rs * 8
    IN  decode64Loop(0, 0, 0, L, A, rs, bitskip) \div rs

\* new Points(options) inside a LaserScan or a PointCloud2. LaserScan keeps
\* messageRatio to itself, so its Points runs with the default ratio of 1.
NewPoints(kind, max_pts, pointRatio, messageRatio) ==
    [ kind |-> kind, max_pts |-> max_pts, pointRatio |-> pointRatio,
      messageRatio |-> messageRatio, counter |-> 0, sn |-> FALSE,
      drawCount |-> 0, bufLen |-> 0, created |-> 0, capacity |-> 0,
      geom |-> FALSE, material |-> "options" ]

\* a setup that builds geometry, material and SceneNode on every call
PointsSetupEveryMessage(p) ==
    [p EXCEPT !.sn = TRUE, !.created = IF @ < 2 THEN @ + 1 ELSE @,
              !.capacity = 3 * p.max_pts,
              !.geom = TRUE, !.material = "material"]

\* this.material is the options object the constructor stored ("options"),
\* the THREE.PointsMaterial setup made of it ("material") or null after
\* dispose: setup reads this.material.isMaterial after it has built the
\* geometry, a TypeError on null
SetupThrows(p) == ~p.sn /\ p.material = "null"

\* Points.setup(frame, point_step, fields), first part: the lazy creation.
\* created counts the times geometry, material, THREE.Points and SceneNode
\* were constructed, capacity is positions.array.length, geom tells whether
\* this.geom holds a geometry
PointsSetup(p) ==
    IF ~p.sn
       THEN IF p.material = "null"
               THEN [p EXCEPT !.geom = TRUE, !.capacity = 3 * p.max_pts]
               ELSE [p EXCEPT !.sn = TRUE, !.created = @ + 1,
                              !.capacity = 3 * p.max_pts,
                              !.geom = TRUE, !.material = "material"]
       ELSE p

\* Points.dispose(): this.material.dispose() is called on whatever truthy
\* value this.material holds, a TypeError on the options object
PointsDispose(p) ==
    LET q == [p EXCEPT !.sn = FALSE, !.geom = FALSE]
    IN  IF p.material = "options"
           THEN [points |-> q, threw |-> TRUE]
           ELSE [points |-> [q EXCEPT !.material = "null"], threw |-> FALSE]

\* Points.update(n)
PointsUpdate(p, n) == [p EXCEPT !.drawCount = n]

\* what one processMessage call did: stored is one past the highest index of
\* positions.array that received a value, beyond the number of stores at an
\* index >= positions.array.length, which a Float32Array discards
Report(outcome, msg, n, p) ==
    [ last |-> outcome, msg |-> msg,
      stored |-> Min(3 * n, 3 * p.max_pts),
      beyond |-> Max(3 * n - 3 * p.max_pts, 0) ]

PointsInit ==
    /\ \E kind \in {"LaserScan", "PointCloud2"} :
       \E max_pts \in 1..MaxPts :
       \E pointRatio \in 1..MaxPointRatio :
       \E messageRatio \in 1..MaxMessageRatio :
          pts = NewPoints(kind, max_pts, pointRatio, messageRatio)
    /\ ptObs = [last |-> "new"]

\* the indices of message.ranges the loop of LaserScan.processMessage visits
\* and finds within [range_min, range_max]
ValidVisited(ranges, pointRatio) ==
    { i \in 0..(Len(ranges) - 1) : i % pointRatio = 0 /\ ranges[i + 1] }

\* a loop that advances the write index on rejected samples too
ScanLoopZeroFilling(ranges, pointRatio, capacity, i, slots) ==
    [ k \in 1..Min(CeilDiv(Len(ranges), pointRatio), capacity) |->
        IF ranges[(k - 1) * pointRatio + 1] THEN (k - 1) * pointRatio ELSE -1 ]

\* the loop of LaserScan.processMessage from index i on: slots lists, slot by
\* slot, the index of the range whose point positions.array holds; a store
\* past the end of the Float32Array is discarded
RECURSIVE ScanLoop(_, _, _, _, _)
ScanLoop(ranges, pointRatio, capacity, i, slots) ==
    IF i >= Len(ranges)
       THEN slots
       ELSE ScanLoop(ranges, pointRatio, capacity, i + pointRatio,
                     IF ranges[i + 1] /\ Len(slots) < capacity
                        THEN Append(slots, i)
                        ELSE slots)

\* LaserScan.processMessage(message): ranges[i] tells whether the i-th range
\* lies within [range_min, range_max]
LaserScanProcess(p, ranges) ==
    LET counter == (p.counter + 1) % p.messageRatio
        msg == [ranges |-> ranges]
    IN  IF counter # 0
           THEN [pts |-> [p EXCEPT !.counter = counter],
                 obs |-> Report("skipped", msg, 0, p)]
        ELSE IF SetupThrows(p)
           THEN [pts |-> PointsSetup([p EXCEPT !.counter = counter]),
                 obs |-> Report("threw", msg, 0, p)]
           ELSE LET j == 3 * Cardinality(ValidVisited(ranges, p.pointRatio))
                    q == PointsSetup([p EXCEPT !.counter = counter])
                    r == Report("processed", msg, j \div 3, p)
                IN  [pts |-> PointsUpdate(q, j \div 3),
                     obs |-> [ last |-> r.last, msg |-> r.msg, stored |-> r.stored,
                               beyond |-> r.beyond,
                               slots |-> ScanLoop(ranges, p.pointRatio, p.max_pts,
                                                  0, <<>>) ]]

LaserScanProcessMessage ==
    /\ pts.kind = "LaserScan"
    /\ \E n \in 0..MaxRanges : \E ranges \in [1..n -> BOOLEAN] :
          LET r == LaserScanProcess(pts, ranges)
          IN  pts' = r.pts /\ ptObs' = r.obs
    /\ UNCHANGED <<sceneVars, dragVars, markerVars, poseVars, ttlVars, ic, tfc, dec, oc, at, b64, dm, sub, mh, nsf>>

\* PointCloud2.processMessage(msg) for a cloud of width*height = records
\* records of point_step bytes, sent as a Uint8Array or as base64 text
PointCloud2Process(p, records, point_step, base64) ==
    LET msg == [records |-> records, point_step |-> point_step, base64 |-> base64]
        shouldProcess == p.counter % p.messageRatio = 0
        q == PointsSetup([p EXCEPT !.counter = (p.counter + 1) % p.messageRatio])
        bufSz == p.max_pts * point_step
        bufLen == IF base64 /\ (q.bufLen = 0 \/ q.bufLen < bufSz) THEN bufSz ELSE q.bufLen
        dvLen == IF base64 THEN bufLen ELSE Min(records * point_step, bufSz)
        n == IF base64
                THEN decode64(Base64Length(records * point_step), bufLen,
                              point_step, p.pointRatio)
                ELSE Min(records \div p.pointRatio, p.max_pts)
        pointRatio == IF base64 THEN 1 ELSE p.pointRatio
        \* DataView.getFloat32 throws a RangeError past the end of the view
        throwing == { i \in 0..(n - 1) :
                        i * pointRatio * point_step + FieldOffsets.z + Float32Bytes > dvLen }
        r == [q EXCEPT !.bufLen = bufLen]
    IN  IF SetupThrows(p)
           THEN [pts |-> PointsSetup(p), obs |-> Report("threw", msg, 0, p)]
        ELSE IF ~shouldProcess
           THEN [pts |-> q, obs |-> Report("skipped", msg, 0, p)]
        ELSE IF throwing # {}
           THEN [pts |-> r,
                 obs |-> Report("threw", msg,
                                CHOOSE i \in throwing : \A k \in throwing : i <= k, p)]
        ELSE [pts |-> PointsUpdate(r, n), obs |-> Report("processed", msg, n, p)]

PointCloud2ProcessMessage ==
    /\ pts.kind = "PointCloud2"
    /\ \E records \in 0..MaxRecords : \E point_step \in PointSteps :
       \E base64 \in BOOLEAN :
          LET r == PointCloud2Process(pts, records, point_step, base64)
          IN  pts' = r.pts /\ ptObs' = r.obs
    /\ UNCHANGED <<sceneVars, dragVars, markerVars, poseVars, ttlVars, ic, tfc, dec, oc, at, b64, dm, sub, mh, nsf>>

PointsNext == LaserScanProcessMessage \/ PointCloud2ProcessMessage

InitPoints == PointsInit /\ SceneIdle /\ DragIdle /\ MarkerIdle /\ PoseIdle /\ TtlIdle /\ ic = [last |-> "idle"] /\ tfc = [last |-> "idle"] /\ dec = [last |-> "idle"] /\ oc = [last |-> "idle"] /\ at = [last |-> "idle"] /\ b64 = [last |-> "idle"] /\ dm = [last |-> "idle"] /\ sub = [last |-> "idle"] /\ mh = [last |-> "idle"] /\ nsf = [last |-> "idle"]

SpecPoints == InitPoints /\ [][PointsNext]_vars

-----------------------------------------------------------------------------
(* Claims about the point sensors *)

Handled == ptObs.last \in {"processed", "threw"}

\* C9: after every message processed by LaserScan or PointCloud2 the number
\* of points set to be drawn is at most max_pts and no value is stored at a
\* position index >= 3*max_pts.
C9_DrawCountWithinCapacity ==
    Handled => /\ pts.drawCount <= pts.max_pts
               /\ ptObs.stored <= 3 * pts.max_pts

\* C10: processing a PointCloud2 message that holds more records than the
\* capacity never throws and touches nothing outside the backing arrays, for
\* every pointRatio >= 1, and leaves min(floor(width*height/pointRatio),
\* max_pts) points to draw.
C10_OversizedCloudIsTruncated ==
    ( /\ pts.kind = "PointCloud2"
      /\ Handled
      /\ ptObs.msg.records > pts.max_pts )
    => /\ ptObs.last = "processed"
       /\ ptObs.beyond = 0
       /\ pts.drawCount = Min(ptObs.msg.records \div pts.pointRatio, pts.max_pts)

\* the indices 0, pointRatio, 2*pointRatio, ... of the last scan whose range
\* lies within the bounds
SampledValid ==
    { i \in 0..(Len(ptObs.msg.ranges) - 1) :
        /\ \E m \in 0..Len(ptObs.msg.ranges) : i = m * pts.pointRatio
        /\ ptObs.msg.ranges[i + 1] }

-----------------------------------------------------------------------------
(* Claims about the lifecycle of SceneNode *)

\* C12: once SceneNode.dispose() has returned, the node's transform callback
\* is not invoked again and the node's pose and visibility stay as they are,
\* also when the TFClient had scheduled a delivery before the unsubscribe.
C12_NoCallbackAfterDispose ==
    [][ sn.disposeCalls >= 1
        => /\ lastTf' = lastTf /\ runLen' = runLen
           /\ NodePose(sn') = NodePose(sn)
           /\ sn'.visible = sn.visible ]_vars

\* the step is a call of SceneNode.dispose()
IsDispose == sn'.disposeCalls = sn.disposeCalls + 1

C14_SecondDisposeFreesNothingAgain ==
    \A i \in DOMAIN sn.children :
       /\ sn.children[i].disposeCalls <= 1
       /\ sn.children[i].geometryDisposals <= 1
       /\ sn.children[i].materialDisposals <= 1

\* C15: a SceneNode built with a transform client and a frame id is invisible
\* until the first transform for its frame is delivered; one built without a
\* client or without a frame id is visible at once, at the given pose.
C15_InvisibleUntilFirstTransform ==
    /\ (sn.hasTfClient /\ sn.hasFrame /\ runLen = 0) => ~sn.visible
    /\ ~(sn.hasTfClient /\ sn.hasFrame)
          => /\ sn.visible
             /\ sn.position = sn.initialPose.position
             /\ sn.quaternion = QNormalize(sn.initialPose.orientation)

-----------------------------------------------------------------------------
(* One marker key of a MarkerClient under a TFClient, with the poses of its
   SceneNode and of the Marker inside it: specification SpecMarkerPose *)

\* message.pose of the markers received (orientation is a unit quaternion)
MarkerPoses == [position : { VZero, <<1, 0, 0>> }, orientation : { QId, <<0, 0, 1, 0>> }]
PoseMsgTypes == { MARKER_ARROW, MARKER_CUBE }

\* Marker.setPose(pose): the Marker's own position and quaternion
MarkerSetPose(pose) ==
    [position |-> pose.position, orientation |-> QNormalize(pose.orientation)]

\* the pose in the world of an object at the pose `local` inside a node
WorldPose(node, local) ==
    [ position    |-> VAdd(node.position, ApplyQuaternion(local.position, node.quaternion)),
      orientation |-> QMul(node.quaternion, local.orientation) ]

\* new Marker({message}) inside new SceneNode({frameID, tfClient, object, pose})
PoseCreate(message, pose, outcome) ==
    [ last |-> outcome, live |-> TRUE,
      node |-> SceneNodeSetup(TRUE, TRUE, pose, <<NewChild("Marker")>>),
      marker |-> NewMarker(message),
      markerPose |-> MarkerSetPose(pose),
      pose |-> pose, tf |-> IdentityTf ]

PoseInit == mp = [last |-> "new", live |-> FALSE]

\* MarkerClient.processMessage(message) with action 0 for the key
PoseAddOrModify ==
    /\ \E type \in PoseMsgTypes, scale \in Scales, pose \in MarkerPoses :
          LET message == Msg("a/0", ACTION_ADD, type, 0, scale, <<1, 0, 0, 1>>)
          IN  IF ~mp.live
                 THEN mp' = PoseCreate(message, pose, "created")
                 ELSE LET r == MarkerUpdate(mp.marker, message)
                      IN  IF r.ok
                             THEN mp' = [mp EXCEPT !.last = "updated",
                                                   !.marker = r.marker,
                                                   !.markerPose = MarkerSetPose(pose),
                                                   !.pose = pose]
                             ELSE mp' = PoseCreate(message, pose, "rebuilt")
    /\ UNCHANGED <<sceneVars, dragVars, markerVars, pointVars, ttlVars, ic, tfc, dec, oc, at, b64, dm, sub, mh, nsf>>

\* the transform store delivers a transform to the callback of the key's node
PoseTFDeliver ==
    /\ mp.live
    /\ \E msg \in Transforms :
          mp' = [mp EXCEPT !.last = "tf", !.node = TFUpdateHandler(@, msg), !.tf = msg]
    /\ UNCHANGED <<sceneVars, dragVars, markerVars, pointVars, ttlVars, ic, tfc, dec, oc, at, b64, dm, sub, mh, nsf>>

PoseNext == PoseAddOrModify \/ PoseTFDeliver

InitMarkerPose == PoseInit /\ SceneIdle /\ DragIdle /\ MarkerIdle /\ PointIdle /\ TtlIdle /\ ic = [last |-> "idle"] /\ tfc = [last |-> "idle"] /\ dec = [last |-> "idle"] /\ oc = [last |-> "idle"] /\ at = [last |-> "idle"] /\ b64 = [last |-> "idle"] /\ dm = [last |-> "idle"] /\ sub = [last |-> "idle"] /\ mh = [last |-> "idle"] /\ nsf = [last |-> "idle"]

SpecMarkerPose == InitMarkerPose /\ [][PoseNext]_vars

\* C16: after an ADD/MODIFY carrying pose p (create, in-place update or
\* rebuild) and a later transform T for the marker's frame, the world pose of
\* the marker content is compose(p, T): the message pose counts once and is
\* the one of the most recent ADD/MODIFY.
C16_MarkerPoseAppliedOnce ==
    (mp.last = "tf") => WorldPose(mp.node, mp.markerPose) = applyTransform(mp.pose, mp.tf)

-----------------------------------------------------------------------------
(* Claims about the actions of marker messages *)

\* C17: a marker message with action code 1, or with any code other than 0,
\* 2 and 3, leaves the set of live keys and every live marker node unchanged.
C17_DeprecatedAndUnknownActionsIgnored ==
    [][ ( /\ mkObs'.entries = 1
          /\ mkObs'.last.action \notin {ACTION_ADD, ACTION_DELETE, ACTION_DELETEALL} )
        => /\ markers' = markers
           /\ rootNodes' = rootNodes
           /\ nodes' = nodes
           /\ nextId' = nextId ]_vars

\* a MarkerArray whose only entry has action 1 arrived while two keys are live
C17_Witness ==
    /\ mkObs.client = "MarkerArrayClient"
    /\ mkObs.entries = 1
    /\ mkObs.last.action = ACTION_DEPRECATED
    /\ mkObs.outcome = "ignored"
    /\ Cardinality(LiveKeys) = 2
    /\ \A k \in LiveKeys : nodes[markers[k]].disposeCalls = 0

\* C18: the entries of a message are applied one after another in list order
\* (and messages in arrival order): the live keys are those obtained by
\* applying the actions in that order; DELETE_ALL followed by ADD of k leaves
\* exactly {k} live, ADD of k followed by DELETE_ALL leaves no key live.
C18_AppliedInOrder ==
    mkObs.entries >= 1
    => /\ LiveKeys = mkObs.inOrder
       /\ mkObs.last.action = ACTION_DELETEALL => LiveKeys = {}
       /\ mkObs.last.action = ACTION_ADD => mkObs.last.key \in LiveKeys

\* both keys were live when the array <<DELETE_ALL, ADD a/1>> arrived: the
\* node of a/1 is a new one
C18_Witness ==
    /\ mkObs.client = "MarkerArrayClient"
    /\ mkObs.entries = 2
    /\ mkObs.was = 2
    /\ mkObs.last.action = ACTION_ADD
    /\ mkObs.last.key = "a/1"
    /\ LiveKeys = {"a/1"}
    /\ markers["a/1"] = 3
    /\ \A id \in 1..2 : nodes[id].disposeCalls = 1

-----------------------------------------------------------------------------
(* MarkerClient with a lifetime: specification SpecLifetime.  Time is counted
   in ticks of the clock read by new Date().getTime(). *)

MaxClock == 4
MaxLifetime == 2

TtlKeys == { "a/0", "a/1" }

\* an ADD/MODIFY that stamps a node only when it constructs one
StampOnConstructOnly(updatedTime, key, now, how) ==
    IF how = "updated" THEN updatedTime ELSE [updatedTime EXCEPT ![key] = now]

\* this.markers[key].updatedTime = new Date().getTime(), reached by every
\* ADD/MODIFY: after an update in place and after a construction
StampUpdatedTime(updatedTime, key, now, how) ==
    [updatedTime EXCEPT ![key] = now]

\* new MarkerClient({lifetime}): the sweep timer is set when lifetime > 0
TtlInit ==
    \E lifetime \in 0..MaxLifetime :
       ttl = [ lifetime |-> lifetime, interval |-> lifetime > 0, now |-> 0,
               live |-> {}, updatedTime |-> [k \in TtlKeys |-> 0],
               lastAdd |-> [k \in TtlKeys |-> 0],
               last |-> [op |-> "new"] ]

\* MarkerClient.processMessage(message); `updated` is what Marker.update
\* returns when the key is live
TtlProcessMessage ==
    /\ \E key \in TtlKeys, action \in {ACTION_ADD, ACTION_DELETE, ACTION_DELETEALL},
          updated \in BOOLEAN :
          LET how == IF key \notin ttl.live THEN "created"
                     ELSE IF updated THEN "updated" ELSE "rebuilt"
          IN  IF action = ACTION_ADD
                 THEN ttl' = [ttl EXCEPT
                         !.live = @ \cup {key},
                         !.updatedTime = StampUpdatedTime(@, key, ttl.now, how),
                         !.lastAdd[key] = ttl.now,
                         !.last = [op |-> "message", how |-> how, key |-> key]]
              ELSE IF action = ACTION_DELETE
                 THEN ttl' = [ttl EXCEPT !.live = @ \ {key},
                                         !.last = [op |-> "message", how |-> "delete",
                                                   key |-> key]]
              ELSE ttl' = [ttl EXCEPT !.live = {},
                                      !.last = [op |-> "message", how |-> "deleteall",
                                                key |-> key]]
    /\ UNCHANGED <<sceneVars, dragVars, markerVars, pointVars, poseVars, ic, tfc, dec, oc, at, b64, dm, sub, mh, nsf>>

\* time passes
TtlTick ==
    /\ ttl.now < MaxClock
    /\ ttl' = [ttl EXCEPT !.now = @ + 1, !.last = [op |-> "tick"]]
    /\ UNCHANGED <<sceneVars, dragVars, markerVars, pointVars, poseVars, ic, tfc, dec, oc, at, b64, dm, sub, mh, nsf>>

\* the interval timer fires: MarkerClient.checkExpiredMarkers()
checkExpiredMarkers ==
    /\ ttl.interval
    /\ LET expired == { k \in ttl.live : ttl.now - ttl.updatedTime[k] > ttl.lifetime }
       IN  ttl' = [ttl EXCEPT !.live = @ \ expired,
                              !.last = [op |-> "sweep", removed |-> expired]]
    /\ UNCHANGED <<sceneVars, dragVars, markerVars, pointVars, poseVars, ic, tfc, dec, oc, at, b64, dm, sub, mh, nsf>>

TtlNext == TtlProcessMessage \/ TtlTick \/ checkExpiredMarkers

InitLifetime == TtlInit /\ SceneIdle /\ DragIdle /\ MarkerIdle /\ PointIdle /\ PoseIdle /\ ic = [last |-> "idle"] /\ tfc = [last |-> "idle"] /\ dec = [last |-> "idle"] /\ oc = [last |-> "idle"] /\ at = [last |-> "idle"] /\ b64 = [last |-> "idle"] /\ dm = [last |-> "idle"] /\ sub = [last |-> "idle"] /\ mh = [last |-> "idle"] /\ nsf = [last |-> "idle"]

SpecLifetime == InitLifetime /\ [][TtlNext]_vars

\* C19: with lifetime L > 0 a sweep removes exactly the markers whose most
\* recent ADD/MODIFY (in place or rebuilding) is more than L old and keeps the
\* others; with lifetime 0 no sweep runs and no marker is removed by age.
C19_SweepRemovesExactlyExpired ==
    [][ /\ ttl'.last.op = "sweep"
           => /\ ttl.lifetime > 0
              /\ ttl'.live = { k \in ttl.live : ttl.now - ttl.lastAdd[k] <= ttl.lifetime }
        /\ (ttl.lifetime = 0 /\ ttl'.live # ttl.live) => ttl'.last.op = "message" ]_vars

\* a sweep has removed a/0, two ticks old, and kept a/1, one tick old: a/1
\* is not older than the lifetime
C19_Witness ==
    /\ ttl.last.op = "sweep"
    /\ ttl.last.removed = {"a/0"}
    /\ ttl.lifetime = 1
    /\ ttl.live = {"a/1"}
    /\ ttl.lastAdd["a/1"] = ttl.now - 1
    /\ ttl.lastAdd["a/0"] = ttl.now - 2

-----------------------------------------------------------------------------
(* Claims about the buttons of a drag *)

\* C20: an InteractiveMarker starts dragging only on a press of button 0 and
\* stops dragging only on a release of button 0; a press or a release of
\* another button changes the dragging flag not at all and emits no
\* drag-start or drag-end feedback.
C20_OnlyPrimaryButtonDrags ==
    [][ /\ (~im.dragging /\ im'.dragging)
           => (imObs'.last = "startDrag" /\ imObs'.button = 0)
        /\ (im.dragging /\ ~im'.dragging)
           => (imObs'.last = "stopDrag" /\ imObs'.button = 0)
        /\ (imObs'.last \in {"startDrag", "stopDrag"} /\ imObs'.button # 0)
           => (im'.dragging = im.dragging /\ im'.feedback = "none") ]_vars

\* button 2 has been released during a drag, which goes on
C20_Witness ==
    /\ imObs.last = "stopDrag"
    /\ imObs.button = 2
    /\ im.dragging
    /\ im.feedback = "none"

\* C21: a pointer move changes the marker's pose and emits "user-pose-change"
\* only while dragging is true, and every move that does so stops the
\* propagation of its event; a move on a marker that is not dragging changes
\* no pose, emits no feedback and stops nothing.
C21_MoveOnlyWhileDragging ==
    [][ imObs'.last = "move"
          => /\ ~im.dragging
                   => /\ MarkerPose(im') = MarkerPose(im)
                      /\ im'.feedback = "none"
                      /\ ~im'.stopped
             /\ (MarkerPose(im') # MarkerPose(im) \/ im'.feedback # "none")
                   => /\ im.dragging
                      /\ im'.feedback = "user-pose-change"
                      /\ im'.stopped ]_vars

\* a rotation has just been accepted during a drag that had already moved
\* the marker away from where the drag started
C21_Witness ==
    /\ imObs.last = "move"
    /\ im.dragging
    /\ im.feedback = "user-pose-change"
    /\ im.stopped
    /\ im.quaternion = <<0, 1, 0, 0>>
    /\ im.dragStart.orientation # im.quaternion
    /\ im.position = <<3, 0, 0>>
    /\ im.dragStart.position # im.position

\* C22: the buffer slot is empty whenever the marker is not dragging, in
\* particular after every primary-button stopDrag; the stop of a drag during
\* which no server pose arrived applies nothing and leaves the pose alone.
C22_BufferEmptyAfterStop ==
    [][ /\ ~im'.dragging => im'.bufferedPoseEvent = Undefined
        /\ (imObs'.last = "stopDrag" /\ imObs'.button = 0 /\ imObs.pushes = 0)
              => (im'.applied = 0 /\ MarkerPose(im') = MarkerPose(im)) ]_vars

\* after an earlier drag whose stop applied a buffered pose, a second drag in
\* which the user moved the marker and no server pose arrived has stopped
C22_Witness ==
    /\ imObs.reconciled
    /\ imObs.last = "stopDrag"
    /\ imObs.button = 0
    /\ imObs.pushes = 0
    /\ ~im.dragging
    /\ im.applied = 0
    /\ im.bufferedPoseEvent = Undefined
    /\ im.position = <<0, 3, 0>>
    /\ im.dragStart.position = <<1, 0, 0>>

\* C31: a move whose intersection arithmetic is degenerate (the ray parallel
\* to the plane, or to the axis) leaves the marker's pose as it was and emits
\* no pose feedback, and no move ever gives the marker a position that is
\* not finite.
C31_DegenerateMoveChangesNothing ==
    [][ imObs'.last = "move"
          => /\ imObs'.degenerate
                   => (MarkerPose(im') = MarkerPose(im) /\ im'.feedback = "none")
             /\ im'.position # NaNVector ]_vars

\* C27: a LaserScan or PointCloud2 has no geometry, material or SceneNode
\* until it processes its first message; that message creates them, once,
\* and every later message finds the same buffer capacity and SceneNode.
C27_LazySetupOnce ==
    [][ /\ ptObs.last = "new" => (pts.created = 0 /\ ~pts.sn /\ pts.capacity = 0)
        /\ pts'.created <= 1
        /\ pts'.sn <=> pts'.created = 1
        /\ (pts.created = 0 /\ pts'.created = 1) => Handled'
        /\ Handled' => (pts'.created = 1 /\ pts'.capacity = 3 * pts'.max_pts)
        /\ pts.created = 1 => (pts'.sn /\ pts'.capacity = pts.capacity) ]_vars

\* a PointCloud2 whose base64 scratch buffer exists from an earlier message has
\* processed a binary message with the one geometry it created
C27_Witness ==
    /\ pts.kind = "PointCloud2"
    /\ ptObs.last = "processed"
    /\ ~ptObs.msg.base64
    /\ pts.bufLen > 0
    /\ pts.drawCount > 0
    /\ pts.created = 1
    /\ pts.sn
    /\ pts.capacity = 3 * pts.max_pts

-----------------------------------------------------------------------------
(* interactivemarkers/InteractiveMarker.js (InteractiveMarkerClient),        *)
(* InteractiveMarkerHandle.js: specification SpecClient                      *)
(* One marker name on the server; every update or init message that adds    *)
(* it makes a new InteractiveMarkerHandle and a new InteractiveMarker.       *)

\* handles one client constructs in a run that is followed
MaxHandles == 2
\* pending setTimeout calls of one handle that are counted
MaxTimers == 2

\* clearTimeout(this.timeoutHandle) behind if (this.timeoutHandle)
ClearTimeout(h) ==
    IF h.timeoutHandle = "pending"
       THEN [h EXCEPT !.timeoutHandle = "cleared", !.timers = @ - 1]
       ELSE h

\* a setPoseFromClient that arms a timer without clearing the pending one
setPoseFromClientStacking(h, bound) ==
    IF ~bound THEN h
    ELSE IF h.dragging
            THEN [h EXCEPT !.pub = "pose", !.timeoutHandle = "pending",
                           !.timers = Min(@ + 1, MaxTimers)]
            ELSE [h EXCEPT !.pub = "pose"]

\* InteractiveMarkerHandle.setPoseFromClient(event). bound: the page defines
\* the global INTERACTIVE_MARKER_* names the handle reads (the module imports
\* FEEDBACK_* only); without them the argument of sendFeedback throws a
\* ReferenceError and the rest of the handler does not run
setPoseFromClient(h, bound) ==
    IF ~bound THEN h
    ELSE IF h.dragging
            THEN LET c == ClearTimeout(h)
                 IN  [c EXCEPT !.pub = "pose", !.timeoutHandle = "pending",
                               !.timers = Min(@ + 1, MaxTimers)]
            ELSE [h EXCEPT !.pub = "pose"]

\* InteractiveMarkerHandle.onMouseDown(event)
onMouseDown(h, bound) ==
    IF ~bound THEN h ELSE [h EXCEPT !.pub = "down", !.dragging = TRUE]

\* an onMouseUp that leaves the timer to expire
onMouseUpLeavingTimer(h, bound) ==
    IF ~bound THEN h ELSE [h EXCEPT !.pub = "up", !.dragging = FALSE]

\* InteractiveMarkerHandle.onMouseUp(event)
onMouseUp(h, bound) ==
    IF ~bound THEN h
    ELSE [ClearTimeout(h) EXCEPT !.pub = "up", !.dragging = FALSE]

\* InteractiveMarkerClient.eraseIntMarker(name) for the handle stored under
\* the name, if any: marker out of rootObject, TF unsubscribed, the five
\* listeners removed, map entry deleted, marker disposed
eraseIntMarker(hs) ==
    [i \in DOMAIN hs |-> [hs[i] EXCEPT !.live = FALSE]]

\* InteractiveMarkerClient.processUpdate(message) for a message whose markers
\* list holds the marker: same-name handle erased, new InteractiveMarkerHandle
\* and InteractiveMarker made and the listeners added. origin is the
\* subscription whose message carried the marker, dragging the handle's flag
\* and mdragging the marker's, pub the event type the handle published in the
\* current step, quiet that its last publication was a mouse-up and the user
\* has not changed the pose since
processUpdate(hs, origin) ==
    Append(eraseIntMarker(hs),
           [ live |-> TRUE, origin |-> origin, dragging |-> FALSE,
             mdragging |-> FALSE, timeoutHandle |-> "null", timers |-> 0,
             pub |-> "none", quiet |-> FALSE ])

\* the step's bookkeeping: no handle has published yet in this step
Quiesce(hs) == [i \in DOMAIN hs |-> [hs[i] EXCEPT !.pub = "none"]]

\* new InteractiveMarkerClient({ros, tfClient}) without a topic
InitClient == SceneIdle /\ DragIdle /\ MarkerIdle /\ PointIdle /\ PoseIdle /\ TtlIdle /\ tfc = [last |-> "idle"] /\ dec = [last |-> "idle"] /\ oc = [last |-> "idle"] /\ at = [last |-> "idle"] /\ b64 = [last |-> "idle"] /\ dm = [last |-> "idle"] /\ sub = [last |-> "idle"] /\ mh = [last |-> "idle"] /\ nsf = [last |-> "idle"]
              /\ \E bound \in BOOLEAN :
                    ic = [ bound |-> bound, topic |-> "none", pending |-> {},
                           hs |-> << >>, last |-> "new" ]

\* InteractiveMarkerClient.subscribe(topic): unsubscribe(), subscribe the
\* update topic, advertise the feedback topic, call the init service
ClientSubscribe ==
    \E topic \in {"A", "B"} :
       /\ ic' = [ic EXCEPT !.topic = topic,
                           !.pending = @ \cup {topic},
                           !.hs = eraseIntMarker(Quiesce(ic.hs)),
                           !.last = "subscribe"]
       /\ UNCHANGED <<sceneVars, dragVars, markerVars, pointVars, poseVars, ttlVars, tfc, dec, oc, at, b64, dm, sub, mh, nsf>>

\* InteractiveMarkerClient.unsubscribe()
ClientUnsubscribe ==
    /\ ic' = [ic EXCEPT !.topic = "none",
                        !.hs = eraseIntMarker(Quiesce(ic.hs)),
                        !.last = "unsubscribe"]
    /\ UNCHANGED <<sceneVars, dragVars, markerVars, pointVars, poseVars, ttlVars, tfc, dec, oc, at, b64, dm, sub, mh, nsf>>

\* the response of an init service call arrives: processInit(initMessage)
\* erases the known markers and treats the message as an update
ProcessInit ==
    \E topic \in ic.pending :
       /\ Len(ic.hs) < MaxHandles
       /\ ic' = [ic EXCEPT !.pending = @ \ {topic},
                           !.hs = processUpdate(Quiesce(ic.hs), topic),
                           !.last = "init"]
       /\ UNCHANGED <<sceneVars, dragVars, markerVars, pointVars, poseVars, ttlVars, tfc, dec, oc, at, b64, dm, sub, mh, nsf>>

\* a message of the subscribed update topic: it erases the marker or adds it
ProcessUpdate ==
    \E erase \in BOOLEAN :
       /\ ic.topic # "none"
       /\ erase \/ Len(ic.hs) < MaxHandles
       /\ ic' = [ic EXCEPT !.hs = IF erase THEN eraseIntMarker(Quiesce(ic.hs))
                                   ELSE processUpdate(Quiesce(ic.hs), ic.topic),
                           !.last = IF erase THEN "erase" ELSE "update"]
       /\ UNCHANGED <<sceneVars, dragVars, markerVars, pointVars, poseVars, ttlVars, tfc, dec, oc, at, b64, dm, sub, mh, nsf>>

\* primary-button mousedown on a control of a marker in the scene:
\* InteractiveMarker.startDrag, whose 'user-mousedown' event reaches
\* handle.onMouseDown
MouseDown ==
    \E i \in DOMAIN ic.hs :
       /\ ic.hs[i].live
       /\ ic' = [ic EXCEPT !.hs = [Quiesce(ic.hs) EXCEPT
                                     ![i] = [onMouseDown(@, ic.bound)
                                               EXCEPT !.mdragging = TRUE]],
                           !.last = "mousedown"]
       /\ UNCHANGED <<sceneVars, dragVars, markerVars, pointVars, poseVars, ttlVars, tfc, dec, oc, at, b64, dm, sub, mh, nsf>>

\* mousemove on that control: InteractiveMarker.moveAxis -> setPosition, whose
\* 'user-pose-change' event reaches handle.setPoseFromClient
MouseMove ==
    \E i \in DOMAIN ic.hs :
       /\ ic.hs[i].live
       /\ ic.hs[i].mdragging
       /\ ic' = [ic EXCEPT !.hs = [Quiesce(ic.hs) EXCEPT
                                     ![i] = setPoseFromClient([@ EXCEPT !.quiet = FALSE],
                                                              ic.bound)],
                           !.last = "mousemove"]
       /\ UNCHANGED <<sceneVars, dragVars, markerVars, pointVars, poseVars, ttlVars, tfc, dec, oc, at, b64, dm, sub, mh, nsf>>

\* primary-button mouseup: InteractiveMarker.stopDrag, whose 'user-mouseup'
\* event reaches handle.onMouseUp
MouseUp ==
    \E i \in DOMAIN ic.hs :
       /\ ic.hs[i].live
       /\ ic' = [ic EXCEPT !.hs = [Quiesce(ic.hs) EXCEPT
                                     ![i] = LET h == onMouseUp(@, ic.bound)
                                            IN  [h EXCEPT !.mdragging = FALSE,
                                                          !.quiet = @ \/ h.pub = "up"]],
                           !.last = "mouseup"]
       /\ UNCHANGED <<sceneVars, dragVars, markerVars, pointVars, poseVars, ttlVars, tfc, dec, oc, at, b64, dm, sub, mh, nsf>>

\* a 250 ms timer of a handle expires: setPoseFromClient.bind(this, event).
\* Timers of one handle expire oldest first; timeoutHandle names the newest
TimerFire ==
    \E i \in DOMAIN ic.hs :
       /\ ic.hs[i].timers >= 1
       /\ ic' = [ic EXCEPT !.hs = [Quiesce(ic.hs) EXCEPT
                                     ![i] = setPoseFromClient(
                                               [@ EXCEPT !.timers = @ - 1,
                                                         !.timeoutHandle =
                                                            IF ic.hs[i].timers = 1
                                                                 /\ @ = "pending"
                                                               THEN "fired" ELSE @],
                                               ic.bound)],
                           !.last = "timer"]
       /\ UNCHANGED <<sceneVars, dragVars, markerVars, pointVars, poseVars, ttlVars, tfc, dec, oc, at, b64, dm, sub, mh, nsf>>

ClientNext ==
    \/ ClientSubscribe \/ ClientUnsubscribe \/ ProcessInit \/ ProcessUpdate
    \/ MouseDown \/ MouseMove \/ MouseUp \/ TimerFire

SpecClient == InitClient /\ [][ClientNext]_vars

\* C23: once a handle has published the mouse-up of a drag it has no timer
\* pending, and no timer publishes pose feedback for it, until the user
\* changes the pose again.
C23_NoResendAfterMouseUp ==
    [][ \A i \in DOMAIN ic.hs :
           /\ ic'.hs[i].quiet => ic'.hs[i].timers = 0
           /\ (ic'.last = "timer" /\ ic'.hs[i].pub = "pose") => ~ic.hs[i].quiet ]_vars

\* the mouse-up of a drag in which the pose was changed has just been
\* published, and it cancelled the pending re-send timer
C23_Witness ==
    /\ ic.last = "mouseup"
    /\ \E i \in DOMAIN ic.hs :
          /\ ic.hs[i].live
          /\ ic.hs[i].pub = "up"
          /\ ic.hs[i].quiet
          /\ ~ic.hs[i].dragging
          /\ ic.hs[i].timeoutHandle = "cleared"
          /\ ic.hs[i].timers = 0

\* C36: a handle never has more than one re-send timer pending; every pose
\* feedback it publishes while in its dragging state, on a pose change or on
\* the expiry of its timer, leaves exactly one pending, and a handle that is
\* not in its dragging state has none.
C36_AtMostOneResendTimer ==
    \A i \in DOMAIN ic.hs :
       /\ ic.hs[i].timers <= 1
       /\ (ic.hs[i].pub = "pose" /\ ic.hs[i].dragging)
             => (ic.hs[i].timers = 1 /\ ic.hs[i].timeoutHandle = "pending")
       /\ ~ic.hs[i].dragging => ic.hs[i].timers = 0

\* the re-send timer of a dragging handle has expired, published the pose
\* again and armed its successor
C36_Witness ==
    /\ ic.last = "timer"
    /\ \E i \in DOMAIN ic.hs :
          /\ ic.hs[i].dragging
          /\ ic.hs[i].pub = "pose"
          /\ ic.hs[i].timers = 1
          /\ ic.hs[i].timeoutHandle = "pending"

\* C24: a handle whose marker has been erased (server erase, same-name
\* update, unsubscribe) never publishes feedback again.
C24_NoFeedbackAfterErase ==
    [][ \A i \in DOMAIN ic.hs : ~ic.hs[i].live => ic'.hs[i].pub = "none" ]_vars

\* C25: a marker is created only while the client is subscribed, and only
\* from a message of the current subscription.
C25_NoMarkerAfterUnsubscribe ==
    [][ Len(ic'.hs) > Len(ic.hs)
          => (ic.topic # "none" /\ ic'.hs[Len(ic'.hs)].origin = ic.topic) ]_vars

-----------------------------------------------------------------------------
(* One frame of one TFClient with several subscribers: SceneNodes on the     *)
(* shared client (visualization/SceneNode.js), or the markers of one         *)
(* InteractiveMarkerControl on its localTfClient                             *)
(* (interactivemarkers/InteractiveMarkerControl.js): specification SpecTf    *)

\* subscribers of the frame that are followed
MaxSubscribers == 3

\* TFClient.unsubscribe(frameId, callback) on the callbacks array of the
\* frame; callback 0 stands for a call without the second argument
unsubscribe(callbacks, callback) ==
    IF callback # 0
       THEN IF \E k \in DOMAIN callbacks : callbacks[k] = callback
               THEN LET index == CHOOSE k \in DOMAIN callbacks :
                                    /\ callbacks[k] = callback
                                    /\ \A l \in 1..(k - 1) : callbacks[l] # callback
                    IN  SubSeq(callbacks, 1, index - 1)
                           \o SubSeq(callbacks, index + 1, Len(callbacks))
               ELSE callbacks
       ELSE << >>

\* what the callbacks array is after the callbacks in "called" have run: a
\* SceneNode's tfUpdateBound leaves the subscriptions alone, a control's
\* addMarker ends with localTfClient.unsubscribe(markerMsg.header.frame_id)
AfterCallbacks(t, called) ==
    IF t.client = "local" /\ called # {} THEN unsubscribe(t.callbacks, 0)
    ELSE t.callbacks

\* a TFClient nobody has subscribed to yet: the client shared by SceneNodes
\* or the localTfClient of a control. active: the subscribers that subscribed
\* and have not unsubscribed themselves; last.unsubscribers: the subscribers
\* that called unsubscribe in the step; last.reached: the subscribers whose
\* callback the step called
InitTf == SceneIdle /\ DragIdle /\ MarkerIdle /\ PointIdle /\ PoseIdle /\ TtlIdle /\ ic = [last |-> "idle"] /\ dec = [last |-> "idle"] /\ oc = [last |-> "idle"] /\ at = [last |-> "idle"] /\ b64 = [last |-> "idle"] /\ dm = [last |-> "idle"] /\ sub = [last |-> "idle"] /\ mh = [last |-> "idle"] /\ nsf = [last |-> "idle"]
          /\ \E client \in {"shared", "local"} :
                tfc = [ client |-> client, count |-> 0, callbacks |-> << >>,
                        timers |-> {}, active |-> {},
                        last |-> [op |-> "new", unsubscribers |-> {}, reached |-> {}] ]

\* tfClient.subscribe(frameID, callback) by a new SceneNode (#setup) or for a
\* marker message of the control (addMarker): callback pushed, timer set
TfSubscribe ==
    /\ tfc.count < MaxSubscribers
    /\ tfc' = [tfc EXCEPT !.count = @ + 1,
                          !.callbacks = Append(@, tfc.count + 1),
                          !.timers = @ \cup {tfc.count + 1},
                          !.active = @ \cup {tfc.count + 1},
                          !.last = [op |-> "subscribe", unsubscribers |-> {},
                                    reached |-> {}]]
    /\ UNCHANGED <<sceneVars, dragVars, markerVars, pointVars, poseVars, ttlVars, ic, dec, oc, at, b64, dm, sub, mh, nsf>>

\* SceneNode.unsubscribeTf(), also from SceneNode.dispose(), of a node
TfNodeUnsubscribe ==
    \E i \in 1..tfc.count :
       /\ tfc.client = "shared"
       /\ tfc' = [tfc EXCEPT !.callbacks = unsubscribe(@, i),
                             !.active = @ \ {i},
                             !.last = [op |-> "unsubscribe", unsubscribers |-> {i},
                                       reached |-> {}]]
       /\ UNCHANGED <<sceneVars, dragVars, markerVars, pointVars, poseVars, ttlVars, ic, dec, oc, at, b64, dm, sub, mh, nsf>>

\* a transform of the frame arrives and the client calls the callbacks
\* registered for the frame, in the order of the array
TfFrameDeliver ==
    LET called == { tfc.callbacks[k] : k \in DOMAIN tfc.callbacks }
        local == tfc.client = "local"
    IN  /\ tfc.count > 0
        /\ tfc' = [tfc EXCEPT !.callbacks = AfterCallbacks(tfc, called),
                              !.active = IF local THEN @ \ called ELSE @,
                              !.last = [op |-> "deliver",
                                        unsubscribers |-> IF local THEN called
                                                                   ELSE {},
                                        reached |-> called]]
        /\ UNCHANGED <<sceneVars, dragVars, markerVars, pointVars, poseVars, ttlVars, ic, dec, oc, at, b64, dm, sub, mh, nsf>>

\* the timer set by TFClient.subscribe fires: callback(defaultTransform)
TfFrameTimer ==
    \E i \in tfc.timers :
       LET local == tfc.client = "local"
       IN  /\ tfc' = [tfc EXCEPT !.timers = @ \ {i},
                                 !.callbacks = AfterCallbacks(tfc, {i}),
                                 !.active = IF local THEN @ \ {i} ELSE @,
                                 !.last = [op |-> "timer",
                                           unsubscribers |-> IF local THEN {i}
                                                                      ELSE {},
                                           reached |-> {i}]]
           /\ UNCHANGED <<sceneVars, dragVars, markerVars, pointVars, poseVars, ttlVars, ic, dec, oc, at, b64, dm, sub, mh, nsf>>

TfNext == TfSubscribe \/ TfNodeUnsubscribe \/ TfFrameDeliver \/ TfFrameTimer

SpecTf == InitTf /\ [][TfNext]_vars

\* C26: when one subscriber of a frame unsubscribes, every other subscriber
\* of the frame stays registered, and a transform that arrives for the frame
\* reaches every subscriber that has not unsubscribed.
C26_SubscriptionsIndependent ==
    [][ /\ \A k \in DOMAIN tfc.callbacks :
              tfc.callbacks[k] \notin tfc'.last.unsubscribers
                 => \E l \in DOMAIN tfc'.callbacks :
                       tfc'.callbacks[l] = tfc.callbacks[k]
        /\ tfc'.last.op = "deliver" => tfc.active \subseteq tfc'.last.reached
      ]_vars

-----------------------------------------------------------------------------
(* sensors/PointCloud2.js, the values read from the records:                 *)
(* specification SpecDecode                                                  *)

\* records of one message whose values are followed
MaxCloud == 2

\* DataView.getInt8 .. getFloat64(byteOffset, littleEndian), chosen by the
\* PointField datatype code 1..8 as in the table of Points.setup. dv[k] is
\* the k-th byte of the view; the value read is given by its type and its
\* bytes, most significant first
DataViewGet(dv, byteOffset, datatype, littleEndian) ==
    LET size == CASE datatype \in {1, 2} -> 1
                  [] datatype \in {3, 4} -> 2
                  [] datatype \in {5, 6, 7} -> 4
                  [] datatype = 8 -> 8
    IN  [ type |-> datatype,
          bytes |-> [ k \in 1..size |->
                        IF littleEndian THEN dv[byteOffset + size - k]
                                        ELSE dv[byteOffset + k - 1] ] ]

\* the loop of PointCloud2.processMessage over n records of a binary message:
\* positions.array, three values a record
PointCloud2Decode(dv, n, pointRatio, point_step, fields, littleEndian) ==
    [ i \in 0..(n - 1) |->
        LET base == i * pointRatio * point_step
        IN  << DataViewGet(dv, base + fields.x.offset, 7, littleEndian),
               DataViewGet(dv, base + fields.y.offset, 7, littleEndian),
               DataViewGet(dv, base + fields.z.offset, 7, littleEndian) >> ]

\* a PointCloud2 whose Points took the field layout of the first message:
\* x, y and z of one datatype, packed or not
InitDecode == SceneIdle /\ DragIdle /\ MarkerIdle /\ PointIdle /\ PoseIdle /\ TtlIdle /\ ic = [last |-> "idle"] /\ tfc = [last |-> "idle"] /\ oc = [last |-> "idle"] /\ at = [last |-> "idle"] /\ b64 = [last |-> "idle"] /\ dm = [last |-> "idle"] /\ sub = [last |-> "idle"] /\ mh = [last |-> "idle"] /\ nsf = [last |-> "idle"]
              /\ \E datatype \in 1..8 :
                 \E layout \in { <<0, 4, 8, 12>>, <<0, 8, 16, 24>>, <<4, 8, 12, 16>> } :
                    dec = [ fields |-> [ x |-> [offset |-> layout[1], datatype |-> datatype],
                                         y |-> [offset |-> layout[2], datatype |-> datatype],
                                         z |-> [offset |-> layout[3], datatype |-> datatype] ],
                            point_step |-> layout[4],
                            last |-> "new" ]

\* PointCloud2.processMessage(msg) for a binary message of that layout with
\* pointRatio 1; the k-th byte of msg.data is (mult * k + add) mod 256
DecodeProcessMessage ==
    \E n \in 1..MaxCloud : \E is_bigendian \in BOOLEAN :
    \E mult \in {1, 3} : \E add \in {0, 200} :
       LET data == [ k \in 0..(n * dec.point_step - 1) |-> (mult * k + add) % 256 ]
       IN  /\ dec' = [ fields |-> dec.fields,
                       point_step |-> dec.point_step,
                       last |-> "decoded",
                       n |-> n,
                       is_bigendian |-> is_bigendian,
                       data |-> data,
                       positions |-> PointCloud2Decode(data, n, 1, dec.point_step,
                                                       dec.fields, ~is_bigendian) ]
           /\ UNCHANGED <<sceneVars, dragVars, markerVars, pointVars, poseVars, ttlVars, ic, tfc, oc, at, b64, dm, sub, mh, nsf>>

SpecDecode == InitDecode /\ [][DecodeProcessMessage]_vars

\* C28: the x, y and z stored for every record are the values at the fields'
\* declared offsets, read with the fields' declared datatype and the
\* message's endianness.
C28_FieldsReadAsDeclared ==
    dec.last = "decoded"
       => \A i \in 0..(dec.n - 1) :
             LET dv == [ k \in 0..(dec.n * dec.point_step + 8) |->
                           IF k \in DOMAIN dec.data THEN dec.data[k] ELSE 0 ]
                 base == i * dec.point_step
                 read(f) == DataViewGet(dv, base + f.offset, f.datatype,
                                        ~dec.is_bigendian)
             IN  dec.positions[i] = << read(dec.fields.x), read(dec.fields.y),
                                       read(dec.fields.z) >>

-----------------------------------------------------------------------------
(* navigation/OcTree.js, ColorOcTree.js, the full-format decode:             *)
(* specification SpecOcTree                                                  *)

\* node records in the data of one message
MaxStream == 3
\* node records in a message whose nodes have one child each
MaxChain == 17

\* const treeDepth = 16
treeDepth == 16
\* this.occupancyThreshold = 0.5, occupancies being counted in tenths
occupancyThreshold == 5

\* 1 << n of JavaScript: the count is taken modulo 32 and the result is a
\* signed 32-bit integer
ShiftLeftOne(n) ==
    IF n % 32 = 31 THEN (-(2 ^ 30)) - 2 ^ 30 ELSE 2 ^ (n % 32)

RECURSIVE parseNode(_, _, _, _, _)
RECURSIVE parseChildren(_, _, _, _, _, _)
RECURSIVE parseChildrenDescending(_, _, _, _, _, _)

\* a child loop that walks the mask from bit 7 down to bit 0
parseChildrenDescending(stream, st, depth, key, mask, i) ==
    IF i >= 8 \/ st.threw THEN st
    ELSE LET b == 7 - i
             diff == treeDepth - depth - 1
             newKey == << key[1] + (IF b % 2 = 1 THEN ShiftLeftOne(diff) ELSE 0),
                          key[2] + (IF (b \div 2) % 2 = 1 THEN ShiftLeftOne(diff) ELSE 0),
                          key[3] + (IF (b \div 4) % 2 = 1 THEN ShiftLeftOne(diff) ELSE 0) >>
         IN  parseChildrenDescending(stream,
                IF (mask \div (2 ^ b)) % 2 = 1
                   THEN parseNode(stream, st, depth + 1, newKey, b)
                   ELSE st,
                depth, key, mask, i + 1)

\* for (let i = 0; i < 8; i++) of parseNode, from bit i on
parseChildren(stream, st, depth, key, mask, i) ==
    IF i >= 8 \/ st.threw THEN st
    ELSE LET diff == treeDepth - depth - 1
             newKey == << key[1] + (IF i % 2 = 1 THEN ShiftLeftOne(diff) ELSE 0),
                          key[2] + (IF (i \div 2) % 2 = 1 THEN ShiftLeftOne(diff) ELSE 0),
                          key[3] + (IF (i \div 4) % 2 = 1 THEN ShiftLeftOne(diff) ELSE 0) >>
         IN  parseChildren(stream,
                IF (mask \div (2 ^ i)) % 2 = 1
                   THEN parseNode(stream, st, depth + 1, newKey, i)
                   ELSE st,
                depth, key, mask, i + 1)

\* parseNode(depth, key) of parseFull. st.cursor is the stream position in
\* node records, st.visited lists the nodes read so far with the depth, the
\* key and the mask bit they were parsed for, st.leafNodes is leafNodes (size
\* in units of the resolution, x2 .. z2 twice the centre); reading past the
\* end of the DataView throws a RangeError
parseNode(stream, st, depth, key, bit) ==
    IF st.threw THEN st
    ELSE IF st.cursor > Len(stream) THEN [st EXCEPT !.threw = TRUE]
    ELSE LET nodeData == stream[st.cursor]
             treeMaxKeyVal == 2 ^ (treeDepth - 1)
             size == ShiftLeftOne(treeDepth - 1 - depth)
             read == [st EXCEPT !.cursor = @ + 1,
                                !.visited = Append(@, [index |-> st.cursor,
                                                       depth |-> depth,
                                                       key |-> key, bit |-> bit])]
         IN  IF nodeData.childExistsMask = 0
                THEN IF nodeData.occupancy >= occupancyThreshold
                        THEN [read EXCEPT !.leafNodes =
                                Append(@, [index |-> st.cursor, size |-> size,
                                           x2 |-> 2 * (key[1] - treeMaxKeyVal) + size,
                                           y2 |-> 2 * (key[2] - treeMaxKeyVal) + size,
                                           z2 |-> 2 * (key[3] - treeMaxKeyVal) + size])]
                        ELSE read
                ELSE parseChildren(stream, read, depth, key,
                                   nodeData.childExistsMask, 0)

\* an Octomap message in the full format whose data holds up to MaxStream
\* node records (occupancy, child mask), or up to MaxChain records of which
\* every one but the last has the single child 0
InitOcTree == SceneIdle /\ DragIdle /\ MarkerIdle /\ PointIdle /\ PoseIdle /\ TtlIdle /\ ic = [last |-> "idle"] /\ tfc = [last |-> "idle"] /\ dec = [last |-> "idle"] /\ at = [last |-> "idle"] /\ b64 = [last |-> "idle"] /\ dm = [last |-> "idle"] /\ sub = [last |-> "idle"] /\ mh = [last |-> "idle"] /\ nsf = [last |-> "idle"]
              /\ \/ \E n \in 1..MaxStream :
                    \E stream \in [1..n -> [occupancy : {4, 5}, childExistsMask : {0, 2, 5}]] :
                       oc = [ stream |-> stream, last |-> "new" ]
                 \/ \E n \in 1..MaxChain : \E occupancy \in {4, 5} : \E mask \in {0, 1} :
                       oc = [ stream |-> [k \in 1..n |->
                                            [occupancy |-> occupancy,
                                             childExistsMask |-> IF k < n THEN 1 ELSE mask]],
                              last |-> "new" ]

\* new OcTree({message}): parseFull(message.data); an exception leaves the
\* constructor without a mesh
OcTreeParseFull ==
    /\ oc.last = "new"
    /\ LET treeMaxKeyVal == 2 ^ (treeDepth - 1)
           r == parseNode(oc.stream,
                          [cursor |-> 1, visited |-> << >>, leafNodes |-> << >>,
                           threw |-> FALSE],
                          0, <<treeMaxKeyVal, treeMaxKeyVal, treeMaxKeyVal>>, -1)
       IN  oc' = [ stream |-> oc.stream,
                   last |-> IF r.threw THEN "threw" ELSE "parsed",
                   visited |-> r.visited,
                   leafNodes |-> IF r.threw THEN << >> ELSE r.leafNodes ]
    /\ UNCHANGED <<sceneVars, dragVars, markerVars, pointVars, poseVars, ttlVars, ic, tfc, dec, at, b64, dm, sub, mh, nsf>>

SpecOcTree == InitOcTree /\ [][OcTreeParseFull]_vars

\* C29: the decode reads the node records once each, in stream order and
\* depth first; the voxels are the records with mask 0 and occupancy >= 0.5,
\* in stream order; a record with a non-zero mask is followed by one child
\* subtree for each set bit of its mask, lowest bit first, and a leaf by none.
C29_DepthFirstInStreamOrder ==
    oc.last = "parsed"
       => LET v == oc.visited
              s == oc.stream
              n == Len(v)
              \* one past the subtree of the k-th node read
              End(k) == IF \E j \in (k + 1)..n : v[j].depth <= v[k].depth
                           THEN CHOOSE j \in (k + 1)..n :
                                   /\ v[j].depth <= v[k].depth
                                   /\ \A l \in (k + 1)..(j - 1) : v[l].depth > v[k].depth
                           ELSE n + 1
              Kids(k) == { j \in (k + 1)..(End(k) - 1) : v[j].depth = v[k].depth + 1 }
              Bits(mask) == { i \in 0..7 : (mask \div (2 ^ i)) % 2 = 1 }
          IN  /\ n >= 1 /\ n <= Len(s)
              /\ v[1].depth = 0
              /\ \A k \in 1..n : v[k].index = k
              /\ \A k \in 2..n : v[k].depth <= v[k - 1].depth + 1 /\ v[k].depth >= 1
              /\ \A k \in 1..n :
                    /\ { v[j].bit : j \in Kids(k) } = Bits(s[k].childExistsMask)
                    /\ Cardinality(Kids(k)) = Cardinality(Bits(s[k].childExistsMask))
                    /\ \A i, j \in Kids(k) : i < j => v[i].bit < v[j].bit
                    /\ s[k].childExistsMask # 0 => Kids(k) # {}
              /\ { oc.leafNodes[l].index : l \in DOMAIN oc.leafNodes }
                    = { k \in 1..n : s[k].childExistsMask = 0
                                        /\ s[k].occupancy >= occupancyThreshold }
              /\ \A l \in 2..Len(oc.leafNodes) :
                    oc.leafNodes[l - 1].index < oc.leafNodes[l].index

\* C37: the decode ends, with a mesh or with an exception, for every input;
\* no node is parsed at depth 16 or deeper, and every voxel has a strictly
\* positive size.
C37_WithinSixteenLevels ==
    oc.last # "idle"
       => /\ oc.last \in {"new", "parsed", "threw"}
          /\ oc.last # "new"
                => /\ \A k \in DOMAIN oc.visited : oc.visited[k].depth < treeDepth
                   /\ \A l \in DOMAIN oc.leafNodes : oc.leafNodes[l].size > 0

\* a root with the children 0 and 2 was decoded: the first child is below the
\* threshold, the second is exactly on it and is the only voxel
C29_Witness ==
    /\ oc.last = "parsed"
    /\ Len(oc.visited) = 3
    /\ oc.stream[1].childExistsMask = 5
    /\ oc.stream[2] = [occupancy |-> 4, childExistsMask |-> 0]
    /\ oc.stream[3] = [occupancy |-> 5, childExistsMask |-> 0]
    /\ oc.visited[2].bit = 0 /\ oc.visited[3].bit = 2
    /\ Len(oc.leafNodes) = 1
    /\ oc.leafNodes[1].index = 3
    /\ oc.leafNodes[1].size = 2 ^ 14

-----------------------------------------------------------------------------
(* utils/ros.js, applyTransform called on its own: specification SpecApply   *)

InitApply == SceneIdle /\ DragIdle /\ MarkerIdle /\ PointIdle /\ PoseIdle /\ TtlIdle /\ ic = [last |-> "idle"] /\ tfc = [last |-> "idle"] /\ dec = [last |-> "idle"] /\ oc = [last |-> "idle"] /\ b64 = [last |-> "idle"] /\ dm = [last |-> "idle"] /\ sub = [last |-> "idle"] /\ mh = [last |-> "idle"] /\ nsf = [last |-> "idle"]
             /\ at = [last |-> "new"]

\* applyTransform(pose, transform) with any pose and transform, whatever was
\* called before. The function copies the components of its arguments into
\* new THREE objects and works on those, so the caller's objects are after
\* the call what they were before it
ApplyTransformCall ==
    /\ \E pose \in Poses, transform \in Transforms :
          at' = [ last |-> "called",
                  pose |-> pose, transform |-> transform,
                  poseAfter |-> pose, transformAfter |-> transform,
                  result |-> applyTransform(pose, transform) ]
    /\ UNCHANGED <<sceneVars, dragVars, markerVars, pointVars, poseVars, ttlVars, ic, tfc, dec, oc, b64, dm, sub, mh, nsf>>

SpecApply == InitApply /\ [][ApplyTransformCall]_vars

-----------------------------------------------------------------------------
(* urdf/index.js decode64 as PointCloud2.processMessage calls it, with the   *)
(* bytes it stores: specification SpecBase64                                 *)

\* the base64 text of the bytes data[0 .. n-1]: character x as its index in
\* DECODE_64_CHAR_SET, -1 for the padding "="
Base64Text(data, n) ==
    [ x \in 0..(Base64Length(n) - 1) |->
        LET g == 3 * (x \div 4)
            octet(k) == IF k < n THEN data[k] ELSE 0
            group == octet(g) * 65536 + octet(g + 1) * 256 + octet(g + 2)
        IN  IF 6 * x >= 8 * n THEN -1
            ELSE (group \div (64 ^ (3 - (x % 4)))) % 64 ]

\* the loop of decode64 with the bytes: b is the bit accumulator, of which
\* only the low 12 bits are ever read (-1 is NaN, the sum with the undefined
\* that DECODE_64_TABLE gives for "=" and for an index past the text), out
\* the bytes stored so far, outbytes[0 .. j-1]
RECURSIVE decode64Bytes(_, _, _, _, _, _, _, _)
decode64Bytes(inbytes, x, b, l, out, A, record_size, bitskip) ==
    LET table(i) == IF i < inbytes.length THEN inbytes.text[i + 1] ELSE -1
        shifted == IF b = -1 THEN 0 ELSE (b * 64) % 4096
        b1 == IF table(x) = -1 THEN -1 ELSE shifted + table(x)
        l1 == l + 6 - 8
        byte == IF b1 = -1 THEN 0 ELSE (b1 \div (2 ^ l1)) % 256
        out1 == Append(out, byte)
        x2 == x + CeilDiv(bitskip - l1, 6)
    IN  IF x >= inbytes.length \/ Len(out) >= A
           THEN out
        ELSE IF l + 6 < 8
           THEN decode64Bytes(inbytes, x + 1, b1, l + 6, out, A, record_size, bitskip)
        ELSE IF Len(out1) % record_size = 0 /\ bitskip > 0
           THEN decode64Bytes(inbytes, x2 + 1,
                              IF l1 % 8 > 0 THEN table(x2) ELSE b1,
                              l1 % 8, out1, A, record_size, bitskip)
        ELSE decode64Bytes(inbytes, x + 1, b1, l1, out1, A, record_size, bitskip)

\* a PointCloud2 message whose data is the base64 text of `records` records of
\* point_step bytes, byte k being (mult * k + add) mod 256, for a client with
\* max_pts and pointRatio
InitBase64 == SceneIdle /\ DragIdle /\ MarkerIdle /\ PointIdle /\ PoseIdle /\ TtlIdle /\ ic = [last |-> "idle"] /\ tfc = [last |-> "idle"] /\ dec = [last |-> "idle"] /\ oc = [last |-> "idle"] /\ at = [last |-> "idle"] /\ dm = [last |-> "idle"] /\ sub = [last |-> "idle"] /\ mh = [last |-> "idle"] /\ nsf = [last |-> "idle"]
              /\ \E point_step \in PointSteps, records \in 1..MaxRecords :
                 \E max_pts \in 1..MaxPts, pointRatio \in 1..MaxPointRatio :
                 \E mult \in {1, 7}, add \in {0, 200} :
                    b64 = [ data |-> [ k \in 0..(records * point_step - 1) |->
                                         (mult * k + add) % 256 ],
                            records |-> records,
                            point_step |-> point_step,
                            max_pts |-> max_pts,
                            pointRatio |-> pointRatio,
                            last |-> "new" ]

\* n = decode64(msg.data, this.buffer, msg.point_step, pointRatio) with a
\* buffer of max_pts * point_step bytes
Decode64Call ==
    /\ b64.last = "new"
    /\ LET A == b64.max_pts * b64.point_step
           text == Base64Text(b64.data, b64.records * b64.point_step)
           inbytes == [ text |-> [ i \in 1..Base64Length(b64.records * b64.point_step)
                                     |-> text[i - 1] ],
                        length |-> Base64Length(b64.records * b64.point_step) ]
           out == decode64Bytes(inbytes, 0, 0, 0, << >>, A, b64.point_step,
                                (b64.pointRatio - 1) * b64.point_step * 8)
       IN  b64' = [ b64 EXCEPT !.last = "decoded" ]
                     @@ [ outbytes |-> out, A |-> A,
                          n |-> Len(out) \div b64.point_step ]
    /\ UNCHANGED <<sceneVars, dragVars, markerVars, pointVars, poseVars, ttlVars, ic, tfc, dec, oc, at, dm, sub, mh, nsf>>

SpecBase64 == InitBase64 /\ [][Decode64Call]_vars

\* C32: decode64 stores as record k the input record k * pointRatio, byte for
\* byte, as the binary path reads it, for every record it reports and the
\* input holds; it stores nothing past the end of the output array.
C32_Base64MatchesBinary ==
    b64.last = "decoded"
       => /\ Len(b64.outbytes) <= b64.A
          /\ \A k \in 0..(b64.n - 1) :
                k * b64.pointRatio < b64.records
                   => \A i \in 0..(b64.point_step - 1) :
                         b64.outbytes[k * b64.point_step + i + 1]
                            = b64.data[k * b64.pointRatio * b64.point_step + i]

-----------------------------------------------------------------------------
(* InteractiveMarker.dispose, InteractiveMarkerControl.dispose:              *)
(* specification SpecDispose                                                 *)

\* controls of an interactive marker
MaxControls == 3

\* this.children.forEach(child => { ...; this.remove(child); }): remove
\* splices the child out of the array forEach is walking. children holds the
\* numbers of the children still in the array, i is the index forEach has
\* come to (from 1), visited the children the callback has been called for
RECURSIVE forEachRemove(_, _, _)
forEachRemove(children, i, visited) ==
    IF i > Len(children) THEN visited
    ELSE forEachRemove(SubSeq(children, 1, i - 1)
                          \o SubSeq(children, i + 1, Len(children)),
                       i + 1, visited \cup {children[i]})

\* InteractiveMarkerControl.dispose()
ControlDispose(control) ==
    LET visited == forEachRemove([k \in DOMAIN control.objects |-> k], 1, {})
    IN  [ disposeCalls |-> control.disposeCalls + 1,
          objects |-> [ k \in DOMAIN control.objects |->
                          IF k \in visited /\ control.objects[k].hasDispose
                             THEN [control.objects[k] EXCEPT !.disposeCalls = @ + 1]
                             ELSE control.objects[k] ] ]

\* an interactive marker with up to MaxControls controls, each with up to
\* MaxChildren child objects, with or without a dispose method
InitDispose == SceneIdle /\ DragIdle /\ MarkerIdle /\ PointIdle /\ PoseIdle /\ TtlIdle /\ ic = [last |-> "idle"] /\ tfc = [last |-> "idle"] /\ dec = [last |-> "idle"] /\ oc = [last |-> "idle"] /\ at = [last |-> "idle"] /\ b64 = [last |-> "idle"] /\ sub = [last |-> "idle"] /\ mh = [last |-> "idle"] /\ nsf = [last |-> "idle"]
               /\ \E n \in 0..MaxControls :
                  \E counts \in [1..n -> 0..MaxChildren] :
                  \E methods \in [1..n -> [1..MaxChildren -> BOOLEAN]] :
                     /\ \A c \in 1..n : \A k \in (counts[c] + 1)..MaxChildren : methods[c][k]
                     /\ dm = [ last |-> "new",
                               controls |->
                                 [ c \in 1..n |->
                                     [ disposeCalls |-> 0,
                                       objects |-> [ k \in 1..counts[c] |->
                                                       [ hasDispose |-> methods[c][k],
                                                         disposeCalls |-> 0 ] ] ] ] ]

\* InteractiveMarker.dispose(), as eraseIntMarker calls it
InteractiveMarkerDispose ==
    /\ dm.last = "new"
    /\ LET visited == forEachRemove([c \in DOMAIN dm.controls |-> c], 1, {})
       IN  dm' = [ last |-> "disposed",
                   controls |-> [ c \in DOMAIN dm.controls |->
                                    IF c \in visited THEN ControlDispose(dm.controls[c])
                                                     ELSE dm.controls[c] ] ]
    /\ UNCHANGED <<sceneVars, dragVars, markerVars, pointVars, poseVars, ttlVars, ic, tfc, dec, oc, at, b64, sub, mh, nsf>>

SpecDispose == InitDispose /\ [][InteractiveMarkerDispose]_vars

\* C33: after InteractiveMarker.dispose() every control has been disposed,
\* and every child of a control that has a dispose method has been disposed,
\* however many there are.
C33_EveryChildDisposed ==
    dm.last = "disposed"
       => \A c \in DOMAIN dm.controls :
             /\ dm.controls[c].disposeCalls >= 1
             /\ \A k \in DOMAIN dm.controls[c].objects :
                   dm.controls[c].objects[k].hasDispose
                      => dm.controls[c].objects[k].disposeCalls >= 1

-----------------------------------------------------------------------------
(* sensors/LaserScan.js, PointCloud2.js under the repository's Topic, from   *)
(* construction to dispose: specification SpecTeardown                       *)

\* deliveries a Topic has deferred and not yet made
MaxDeferred == 2

\* new LaserScan(options) or new PointCloud2(options) with the default
\* material, pointRatio and messageRatio, with or without a ros connection:
\* with one the constructor subscribes
InitTeardown == SceneIdle /\ DragIdle /\ MarkerIdle /\ PoseIdle /\ TtlIdle /\ ic = [last |-> "idle"] /\ tfc = [last |-> "idle"] /\ dec = [last |-> "idle"] /\ oc = [last |-> "idle"] /\ at = [last |-> "idle"] /\ b64 = [last |-> "idle"] /\ dm = [last |-> "idle"] /\ mh = [last |-> "idle"] /\ nsf = [last |-> "idle"]
                /\ \E kind \in {"LaserScan", "PointCloud2"}, max_pts \in 1..MaxPts :
                      pts = NewPoints(kind, max_pts, 1, 1)
                /\ ptObs = [last |-> "new"]
                /\ \E ros \in BOOLEAN :
                      sub = [ rosTopic |-> ros, deferred |-> 0, disposed |-> FALSE,
                              disposeThrew |-> FALSE, inParent |-> TRUE,
                              last |-> "new" ]

\* Topic._handleMessage(message): one setTimeout(() => callback(message), 0)
\* for every subscriber
TopicHandleMessage ==
    /\ sub.rosTopic
    /\ sub.deferred < MaxDeferred
    /\ sub' = [sub EXCEPT !.deferred = @ + 1, !.last = "deferred"]
    /\ UNCHANGED <<sceneVars, dragVars, markerVars, pointVars, poseVars, ttlVars, ic, tfc, dec, oc, at, b64, dm, mh, nsf>>

\* a timer of Topic._handleMessage fires: processMessage(message)
TopicTimer ==
    /\ sub.deferred > 0
    /\ sub' = [sub EXCEPT !.deferred = @ - 1, !.last = "delivered"]
    /\ \/ /\ pts.kind = "LaserScan"
          /\ \E n \in 0..MaxRanges : \E ranges \in [1..n -> BOOLEAN] :
                LET r == LaserScanProcess(pts, ranges)
                IN  pts' = r.pts /\ ptObs' = r.obs
       \/ /\ pts.kind = "PointCloud2"
          /\ \E records \in 0..MaxRecords : \E point_step \in PointSteps :
             \E base64 \in BOOLEAN :
                LET r == PointCloud2Process(pts, records, point_step, base64)
                IN  pts' = r.pts /\ ptObs' = r.obs
    /\ UNCHANGED <<sceneVars, dragVars, markerVars, poseVars, ttlVars, ic, tfc, dec, oc, at, b64, dm, mh, nsf>>

\* LaserScan.dispose() / PointCloud2.dispose(): unsubscribe(), then
\* this.points.dispose(), then this.parent.remove(this)
StreamDispose ==
    /\ ~sub.disposed /\ ~sub.disposeThrew
    /\ LET r == PointsDispose(pts)
       IN  /\ pts' = r.points
           /\ sub' = [sub EXCEPT !.rosTopic = FALSE,
                                 !.disposed = ~r.threw,
                                 !.disposeThrew = r.threw,
                                 !.inParent = r.threw,
                                 !.last = "dispose"]
    /\ ptObs' = [ptObs EXCEPT !.last = "dispose"]
    /\ UNCHANGED <<sceneVars, dragVars, markerVars, poseVars, ttlVars, ic, tfc, dec, oc, at, b64, dm, mh, nsf>>

TeardownNext == TopicHandleMessage \/ TopicTimer \/ StreamDispose

SpecTeardown == InitTeardown /\ [][TeardownNext]_vars

\* C34: a message the Topic delivers after dispose() has returned creates no
\* geometry and no SceneNode (and with it no transform subscription) and
\* throws nothing.
C34_NoResurrectionAfterDispose ==
    [][ (sub.disposed /\ sub'.last = "delivered")
           => (~pts'.geom /\ ~pts'.sn /\ ptObs'.last # "threw") ]_vars

\* C35: dispose() on a client with default options that has not processed a
\* message completes without throwing and leaves the client unsubscribed.
C35_DisposeBeforeFirstMessage ==
    [][ (sub'.last = "dispose" /\ pts.created = 0 /\ pts.material = "options")
           => (~sub'.disposeThrew /\ sub'.disposed /\ ~sub'.rosTopic) ]_vars

-----------------------------------------------------------------------------
(* interaction/MouseHandler.js: the DOM events of the renderer's canvas,     *)
(* dispatched to the picked object or to the fallback target: specification  *)
(* SpecMouse                                                                 *)

\* notify(target, type, event3D): the notifications sent so far, with this
\* one added; a missing target gets none
notify(log, target, type) ==
    IF target = "null" THEN log ELSE Append(log, <<target, type>>)

\* handleTargetChange(newTarget, event3D); status is what the listeners of
\* newTarget make of the first notification
handleTargetChange(h, log, newTarget, type, status) ==
    LET eventStatus == IF newTarget = "null" THEN "FAILED" ELSE status
        isMouseEvent == type \in {"mousedown", "mouseup", "mousemove"}
        isTouchEvent == type \in {"touchstart", "touchmove"}
    IN  IF isMouseEvent
           THEN LET over == notify(log, newTarget, "mouseover")
                IN  IF eventStatus = "ACCEPTED"
                       THEN notify(over, h.lastTarget, "mouseout")
                    ELSE IF eventStatus = "FAILED" /\ newTarget # h.fallbackTarget
                       THEN notify(notify(over, h.fallbackTarget, "mouseover"),
                                   h.lastTarget, "mouseout")
                    ELSE over
        ELSE IF isTouchEvent
           THEN LET first == notify(log, newTarget, type)
                IN  IF eventStatus = "ACCEPTED"
                       THEN notify(notify(first, h.lastTarget, "touchleave"),
                                   h.lastTarget, "touchend")
                    ELSE IF eventStatus = "FAILED" /\ newTarget # h.fallbackTarget
                       THEN notify(notify(first, h.lastTarget, "touchmove"),
                                   h.lastTarget, "touchend")
                    ELSE first
        ELSE log

\* a processDomEvent that picks the object under the pointer during a drag too
processDomEventRepicking(h, type, button, pick, status) ==
    LET isMouseOut == type = "mouseout"
        isTouchEnd == type \in {"touchleave", "touchend", "touchcancel"}
    IN  IF isMouseOut \/ isTouchEnd
           THEN [h EXCEPT !.log = notify(IF h.dragging
                                            THEN notify(<< >>, h.lastTarget, "mouseup")
                                            ELSE << >>,
                                         h.lastTarget,
                                         IF isMouseOut THEN "mouseout" ELSE "touchend"),
                          !.dragging = FALSE, !.lastTarget = "null",
                          !.picked = FALSE, !.dragTarget = "null"]
        ELSE LET targetObj == IF pick # "none" THEN pick ELSE h.fallbackTarget
                 changed == IF targetObj # h.lastTarget
                               THEN handleTargetChange(h, << >>, targetObj, type, status)
                               ELSE << >>
                 begins == type \in {"mousedown", "touchstart", "touchmove"}
             IN  [h EXCEPT !.log = notify(changed, targetObj, type),
                           !.dragging = IF begins THEN TRUE ELSE @,
                           !.dragTarget = IF begins THEN targetObj ELSE @,
                           !.lastTarget = targetObj,
                           !.picked = TRUE]

\* processDomEvent(domEvent). pick is the first intersection of the mouse
\* ray with the root object ("none": no intersection); log lists the
\* notifications of this event, picked tells whether the ray was cast, and
\* dragTarget remembers the target of the event that began the drag
processDomEvent(h, type, button, pick, status) ==
    LET isMouseOut == type = "mouseout"
        isTouchEnd == type \in {"touchleave", "touchend", "touchcancel"}
    IN  IF isMouseOut \/ isTouchEnd
           THEN [h EXCEPT !.log = notify(IF h.dragging
                                            THEN notify(<< >>, h.lastTarget, "mouseup")
                                            ELSE << >>,
                                         h.lastTarget,
                                         IF isMouseOut THEN "mouseout" ELSE "touchend"),
                          !.dragging = FALSE, !.lastTarget = "null",
                          !.picked = FALSE, !.dragTarget = "null"]
        ELSE IF h.dragging
           THEN LET isDragEnd == (type = "mouseup" /\ button = 2) \/ type = "click"
                                    \/ type = "touchend"
                IN  [h EXCEPT !.log = notify(<< >>, h.lastTarget, type),
                              !.dragging = ~isDragEnd,
                              !.dragTarget = IF isDragEnd THEN "null" ELSE @,
                              !.picked = FALSE]
        ELSE LET targetObj == IF pick # "none" THEN pick ELSE h.fallbackTarget
                 changed == IF targetObj # h.lastTarget
                               THEN handleTargetChange(h, << >>, targetObj, type, status)
                               ELSE << >>
                 begins == type \in {"mousedown", "touchstart", "touchmove"}
             IN  [h EXCEPT !.log = notify(changed, targetObj, type),
                           !.dragging = IF begins THEN TRUE ELSE @,
                           !.dragTarget = IF begins THEN targetObj ELSE @,
                           !.lastTarget = targetObj,
                           !.picked = TRUE]

\* new MouseHandler(options), with or without a fallback target
InitMouse == SceneIdle /\ DragIdle /\ MarkerIdle /\ PointIdle /\ PoseIdle /\ TtlIdle /\ ic = [last |-> "idle"] /\ tfc = [last |-> "idle"] /\ dec = [last |-> "idle"] /\ oc = [last |-> "idle"] /\ at = [last |-> "idle"] /\ b64 = [last |-> "idle"] /\ dm = [last |-> "idle"] /\ sub = [last |-> "idle"] /\ nsf = [last |-> "idle"]
             /\ \E fallbackTarget \in {"fallback", "null"} :
                   mh = [ last |-> "new", fallbackTarget |-> fallbackTarget,
                          lastTarget |-> fallbackTarget, dragging |-> FALSE,
                          dragTarget |-> "null", picked |-> FALSE, log |-> << >>,
                          type |-> "none", button |-> 0 ]

\* the canvas delivers one of the events the handler listens to
ProcessDomEvent ==
    /\ mh.last # "idle"
    /\ \E type \in {"click", "mouseout", "mousedown", "mouseup", "mousemove", "wheel",
                    "touchstart", "touchend", "touchcancel", "touchmove"} :
       \E button \in {0, 2} :
       \E pick \in {"none", "a", "b"} :
       \E status \in {"ACCEPTED", "CONTINUED", "FAILED"} :
          mh' = [ processDomEvent(mh, type, button, pick, status)
                    EXCEPT !.last = "event", !.type = type, !.button = button ]
    /\ UNCHANGED <<sceneVars, dragVars, markerVars, pointVars, poseVars, ttlVars, ic, tfc, dec, oc, at, b64, dm, sub, nsf>>

SpecMouse == InitMouse /\ [][ProcessDomEvent]_vars

\* C38: an event that arrives during a drag is dispatched without picking,
\* and every notification it causes goes to the target of the event that
\* began the drag; when it is a mouseout or a touch end, the first
\* notification is a 'mouseup' and the drag is over afterwards.
C38_DragKeepsItsTarget ==
    [][ mh.dragging
          => /\ ~mh'.picked
             /\ \A k \in DOMAIN mh'.log : mh'.log[k][1] = mh.dragTarget
             /\ mh.dragTarget # "null" => Len(mh'.log) >= 1
             /\ mh'.type \in {"mouseout", "touchend", "touchcancel"}
                   => /\ ~mh'.dragging
                      /\ mh.dragTarget # "null"
                            => mh'.log[1] = <<mh.dragTarget, "mouseup">> ]_vars

\* a drag that began on the picked object a was ended by a mouseout while the
\* pointer was over b: a got the 'mouseup' and the 'mouseout'
C38_Witness ==
    /\ mh.last = "event"
    /\ mh.type = "mouseout"
    /\ ~mh.dragging
    /\ mh.log = << <<"a", "mouseup">>, <<"a", "mouseout">> >>

-----------------------------------------------------------------------------
(* The NavSatFix client (src/unnamed/part_014): the track of the last keep   *)
(* fixes, kept twice in one vertex buffer: specification SpecNavSat          *)

\* largest keep option
MaxKeep == 3
\* fixes received by one client
MaxFixes == 6

\* a processMessage that writes the fix at next1 only
processMessageSingleCopy(s, p) ==
    LET next1 == (s.next1 + 1) % s.keep
        next2 == next1 + s.keep
        count == Min(s.count + 1, s.keep)
    IN  [s EXCEPT !.vertices = [k \in DOMAIN s.vertices |->
                                   IF k = s.next1 THEN p ELSE s.vertices[k]],
                  !.next1 = next1, !.next2 = next2, !.count = count,
                  !.drawStart = next2 - count, !.drawCount = count,
                  !.fixes = Append(@, p)]

\* NavSatFix.processMessage(message), p being the converted position; slots
\* of the vertex buffer are numbered from 0, a store outside the typed array
\* is dropped, and fixes lists the positions received so far
NavSatFixProcessMessage(s, p) ==
    LET next1 == (s.next1 + 1) % s.keep
        next2 == next1 + s.keep
        count == Min(s.count + 1, s.keep)
    IN  [s EXCEPT !.vertices = [k \in DOMAIN s.vertices |->
                                   IF k = s.next1 \/ k = s.next2 THEN p
                                   ELSE s.vertices[k]],
                  !.next1 = next1, !.next2 = next2, !.count = count,
                  !.drawStart = next2 - count, !.drawCount = count,
                  !.fixes = Append(@, p)]

\* new NavSatFix({keep}): a zeroed Float32Array of 2 * keep vertices
InitNavSat == SceneIdle /\ DragIdle /\ MarkerIdle /\ PointIdle /\ PoseIdle /\ TtlIdle /\ ic = [last |-> "idle"] /\ tfc = [last |-> "idle"] /\ dec = [last |-> "idle"] /\ oc = [last |-> "idle"] /\ at = [last |-> "idle"] /\ b64 = [last |-> "idle"] /\ dm = [last |-> "idle"] /\ sub = [last |-> "idle"] /\ mh = [last |-> "idle"]
              /\ \E keep \in 1..MaxKeep :
                    nsf = [ last |-> "new", keep |-> keep, count |-> 0,
                            next1 |-> 0, next2 |-> keep,
                            vertices |-> [k \in 0..(2 * keep - 1) |-> 0],
                            drawStart |-> 0, drawCount |-> 0, fixes |-> << >> ]

\* the topic delivers a fix; its position is one of two places
NavSatFixMessage ==
    /\ nsf.last # "idle"
    /\ Len(nsf.fixes) < MaxFixes
    /\ \E p \in {1, 2} :
          nsf' = [ NavSatFixProcessMessage(nsf, p) EXCEPT !.last = "fix" ]
    /\ UNCHANGED <<sceneVars, dragVars, markerVars, pointVars, poseVars, ttlVars, ic, tfc, dec, oc, at, b64, dm, sub, mh>>

SpecNavSat == InitNavSat /\ [][NavSatFixMessage]_vars

\* C39: after n >= 1 fixes the draw range lies inside the 2 * keep vertices
\* of the buffer and holds the last min(n, keep) fixes, oldest first.
C39_DrawRangeIsTheLastFixes ==
    nsf.last = "fix"
       => LET n == Len(nsf.fixes)
              m == Min(n, nsf.keep)
          IN  /\ nsf.drawStart >= 0
              /\ nsf.drawStart + nsf.drawCount <= 2 * nsf.keep
              /\ nsf.drawCount = m
              /\ \A j \in 1..m :
                    nsf.vertices[nsf.drawStart + j - 1] = nsf.fixes[n - m + j]

\* more fixes than slots: the oldest was overwritten and the range starts in
\* the first half of the buffer and ends in the second
C39_Witness ==
    /\ nsf.last = "fix"
    /\ nsf.keep = 3
    /\ nsf.fixes = <<1, 2, 2, 1, 2>>
    /\ nsf.drawStart = 2
    /\ nsf.drawCount = 3
    /\ nsf.vertices[2] = 2 /\ nsf.vertices[3] = 1 /\ nsf.vertices[4] = 2

====
